---- MODULE Spec2Model ----
(***************************************************************************)
(* A model of the Shastina front end: the input filter of shastina.c (the  *)
(* snfilter functions) and the block reader of shasm_block.c.              *)
(*                                                                         *)
(* Bytes are integers 0..255; the sentinels of the code are the negative   *)
(* integers the code defines.  A C array of n bytes is a sequence of       *)
(* length n, so that the C element p[i] is the TLA+ element p[i + 1].      *)
(***************************************************************************)
EXTENDS Integers, Sequences, FiniteSets, TLC

VARIABLES
  pIn,      \* the FILE stream (stdin): data, read position, indicators
  fil,      \* the SNFILTER structure of shastina.c
  out,      \* characters snfilter_read took from the stream, in order
  ret,      \* value returned by the most recent snfilter_read
  latched,  \* first EOF or IOERR value snfilter_read returned (0: none yet)
  srcAfter, \* getc was called after it had reported end of file or an error
  bomFirst, \* value of the BOM flag after the first snfilter_read
  started,  \* snfilter_read has been called at least once
  pbret,    \* value returned by the most recent snfilter_pushback
  lastop,   \* the operation that produced the current state
  pb,       \* the SHASM_BLOCK structure of shasm_block.c
  ps,       \* the SHASM_IFLSTATE input filter chain the block reader reads
  bret,     \* value returned by the most recent block reader read call
  inErr,    \* the most recent read call was made in error state
  touched,  \* a read call made in error state changed the input filter
  first,    \* error code and line of the first error (<<>>: none yet)
  ncalls,   \* number of read calls made on the block reader
  view,     \* results of the queries made since the most recent read call
  tk,       \* the SNTOKEN structure of main in shastina.c, with its buffers
  rd,       \* the most recent sntoken_read: the number of calls so far, the
            \* filter and the stream it started from, and what
            \* sntk_readToken returned to it
  aborted,  \* the program of shastina.c has ended in abort()
  enc       \* the most recent shasm_block_encode: its arguments, the block
            \* reader it was called on, what it returned, how often it ran
            \* the fpMap callback, and the temporary buffer it left

vars ==
  <<pIn, fil, out, ret, latched, srcAfter, bomFirst, started, pbret, lastop,
    pb, ps, bret, inErr, touched, first, ncalls, view, tk, rd, aborted,
    enc>>

filterVars ==
  <<fil, out, ret, latched, srcAfter, bomFirst, started, pbret>>
blockVars == <<pb, ps, bret, inErr, touched, first, ncalls, view, enc>>
tokenVars == <<tk, rd, aborted>>

(***************************************************************************)
(* Bounds of the model.                                                    *)
(***************************************************************************)
\* most chunks (single bytes or a whole byte order mark) in an input file
\* of the filter specification
MaxChunks == 3

\* most bytes that follow the leading run of letters in an input file of
\* the block reader specification
MaxTail == 1

\* most read calls the block reader test program makes
MaxCalls == 2

\* most bytes in an input file of the token specification
MaxFile == 3

\* initial and maximum capacity of the key buffer and of the value buffer
KeyInitCap == 2
KeyMaxCap == 3
ValInitCap == 2
ValMaxCap == 3

\* most bytes after the opening delimiter or the final token in an input
\* file of the string specification that may have a read error, and most
\* bytes after the opening bracket in one of its files of nested brackets
MaxBody == 3
MaxCurly == 6

\* initial and maximum capacity of the value buffer in the string
\* specification
StrInitCap == 2
StrMaxCap == 6

(***************************************************************************)
(* Constants of shastina.c.                                                *)
(***************************************************************************)
SNERR_IOERR == -1
SNERR_EOF == -2
SNERR_BADSIG == -3
SNERR_OPENSTR == -4
SNERR_LONGSTR == -5
SNERR_NULLCHR == -6
SNERR_DEEPCURLY == -7
SNERR_BADCHAR == -8
SNERR_LONGTOKEN == -9
SNERR_TRAILER == -10

ASCII_HT == 9
ASCII_LF == 10
ASCII_CR == 13
ASCII_SP == 32
ASCII_DQUOTE == 34
ASCII_POUNDSIGN == 35
ASCII_PERCENT == 37
ASCII_LPAREN == 40
ASCII_RPAREN == 41
ASCII_COMMA == 44
ASCII_SEMICOLON == 59
ASCII_LSQR == 91
ASCII_BACKSLASH == 92
ASCII_RSQR == 93
ASCII_GRACCENT == 96
ASCII_LCURL == 123
ASCII_BAR == 124
ASCII_RCURL == 125

ASCII_VISIBLE_MIN == 33
ASCII_VISIBLE_MAX == 126

SNFILTER_BOM_1 == 239
SNFILTER_BOM_2 == 187
SNFILTER_BOM_3 == 191

SNTOKEN_FINAL == 0
SNTOKEN_SIMPLE == 1
SNTOKEN_STRING == 2
SNTOKEN_EMBED == 3

SNSTRING_QUOTED == 1
SNSTRING_CURLY == 2

\* limits.h; the C standard guarantees at least this value
LONG_MAX == 2147483647

\* stdio.h: the value getc returns at end of file or on a read error
C_EOF == -1

(***************************************************************************)
(* The FILE stream.  data is the content of the file and pos the number of *)
(* bytes consumed.  A read error is an event of the environment: errAt = k *)
(* (k > 0) makes the read of byte k fail; the failure either persists      *)
(* (errSticky) or happens once, the next getc reading byte k normally.     *)
(* err and eof are the error and end-of-file indicators; calls counts the  *)
(* getc calls made by the filter read in progress.                         *)
(***************************************************************************)
getc(f) ==
  IF f.errAt = f.pos + 1 /\ (f.errSticky \/ ~f.err)
    THEN [c |-> C_EOF, f |-> [f EXCEPT !.err = TRUE, !.calls = @ + 1]]
  ELSE IF f.pos < Len(f.data)
    THEN [c |-> f.data[f.pos + 1],
          f |-> [f EXCEPT !.pos = @ + 1, !.calls = @ + 1]]
  ELSE [c |-> C_EOF, f |-> [f EXCEPT !.eof = TRUE, !.calls = @ + 1]]

feof(f) == f.eof

\* ungetc of the byte that was just read: the stream steps back one byte
ungetc(c, f) == [f EXCEPT !.pos = @ - 1, !.eof = FALSE]

(***************************************************************************)
(* snfilter_reset: the initial state of the filter.                        *)
(***************************************************************************)
snfilter_reset ==
  [line_count |-> 0, c |-> 0, pushback |-> FALSE, bom_present |-> FALSE]

(***************************************************************************)
(* snfilter_read, first part: the check for a UTF-8 byte order mark, made  *)
(* whenever line_count is zero.  The result is the error number (0 for     *)
(* none), the stream, and whether the bom_present flag is to be set.       *)
(***************************************************************************)
BomCheck(f0) ==
  LET g1 == getc(f0) IN
  IF g1.c = C_EOF
    THEN [err |-> IF feof(g1.f) THEN SNERR_EOF ELSE SNERR_IOERR,
          f |-> g1.f, bom |-> FALSE]
  ELSE IF g1.c = SNFILTER_BOM_1
    THEN LET g2 == getc(g1.f) IN
         IF g2.c = C_EOF
           THEN [err |-> IF feof(g2.f) THEN SNERR_BADSIG ELSE SNERR_IOERR,
                 f |-> g2.f, bom |-> FALSE]
         ELSE IF g2.c # SNFILTER_BOM_2
           THEN [err |-> SNERR_BADSIG, f |-> g2.f, bom |-> FALSE]
         ELSE LET g3 == getc(g2.f) IN
              IF g3.c = C_EOF
                THEN [err |-> IF feof(g3.f) THEN SNERR_BADSIG
                                            ELSE SNERR_IOERR,
                      f |-> g3.f, bom |-> FALSE]
              ELSE IF g3.c # SNFILTER_BOM_3
                THEN [err |-> SNERR_BADSIG, f |-> g3.f, bom |-> FALSE]
              ELSE [err |-> 0, f |-> g3.f, bom |-> TRUE]
  ELSE [err |-> 0, f |-> ungetc(g1.c, g1.f), bom |-> FALSE]

(***************************************************************************)
(* snfilter_read: the test that a CR or LF just read (c) and the byte      *)
(* after it (c2, or -1 at end of file) do not form a CR+LF or LF+CR pair.  *)
(***************************************************************************)
NoPair_LfOnly(c, c2) ==
  \/ c = ASCII_LF
  \/ (c = ASCII_CR /\ c2 # ASCII_LF)

NoPair_AnyBreak(c, c2) == c2 # ASCII_CR /\ c2 # ASCII_LF

NoPair(c, c2) ==
  \/ (c = ASCII_LF /\ c2 # ASCII_CR)
  \/ (c = ASCII_CR /\ c2 # ASCII_LF)

(***************************************************************************)
(* snfilter_read, second part: read one character from the stream, pair a  *)
(* line break with the byte after it and turn CR into LF.                  *)
(***************************************************************************)
ReadChar(f0) ==
  LET g1 == getc(f0) IN
  IF g1.c = C_EOF
    THEN [err |-> IF feof(g1.f) THEN SNERR_EOF ELSE SNERR_IOERR,
          f |-> g1.f, c |-> g1.c]
  ELSE IF g1.c = ASCII_CR \/ g1.c = ASCII_LF
    THEN LET g2 == getc(g1.f) IN
         IF g2.c = C_EOF /\ ~feof(g2.f)
           THEN [err |-> SNERR_IOERR, f |-> g2.f, c |-> g1.c]
         ELSE LET c2 == IF g2.c = C_EOF THEN -1 ELSE g2.c
                  f2 == IF NoPair(g1.c, c2) /\ c2 # -1
                          THEN ungetc(c2, g2.f) ELSE g2.f
              IN [err |-> 0, f |-> f2,
                  c |-> IF g1.c = ASCII_CR THEN ASCII_LF ELSE g1.c]
  ELSE [err |-> 0, f |-> g1.f, c |-> g1.c]

\* the guard of the second part without its test of the pushback flag
MustRead_NoPushback(pFilter, err_num) ==
  /\ err_num = 0
  /\ (pFilter.line_count = 0 \/ pFilter.c >= 0)

(***************************************************************************)
(* snfilter_read: the guard of the second part.                            *)
(***************************************************************************)
MustRead(pFilter, err_num) ==
  /\ err_num = 0
  /\ ~pFilter.pushback
  /\ (pFilter.line_count = 0 \/ pFilter.c >= 0)

\* snfilter_read with a line counter that is incremented without the test
\* against LONG_MAX, wrapping around as a long does
snfilter_read_wrap(pFilter, f0) ==
  LET Store(b, doread, r) ==
        LET stored == doread /\ r.err = 0
            lc == IF ~stored THEN pFilter.line_count
                  ELSE IF pFilter.line_count = 0 THEN 1
                  ELSE IF r.c = ASCII_LF
                    THEN IF pFilter.line_count = LONG_MAX
                           THEN (-LONG_MAX) - 1
                           ELSE pFilter.line_count + 1
                  ELSE pFilter.line_count
            cc == IF r.err # 0 THEN r.err
                  ELSE IF stored THEN r.c
                  ELSE pFilter.c
        IN [fil |-> [line_count |-> lc, c |-> cc, pushback |-> FALSE,
                     bom_present |-> pFilter.bom_present \/ b.bom],
            f |-> r.f, ret |-> cc, fresh |-> stored]
      Read(b, doread) ==
        Store(b, doread, IF doread THEN ReadChar(b.f)
                                   ELSE [err |-> b.err, f |-> b.f, c |-> 0])
      Check(b) == Read(b, MustRead(pFilter, b.err))
  IN Check(IF pFilter.line_count = 0
             THEN BomCheck(f0)
             ELSE [err |-> 0, f |-> f0, bom |-> FALSE])

(***************************************************************************)
(* snfilter_read.  The result is the new filter structure, the stream, the *)
(* value returned, and whether a character was taken from the stream.      *)
(***************************************************************************)
snfilter_read(pFilter, f0) ==
  LET Store(b, doread, r) ==
        LET stored == doread /\ r.err = 0
            lc == IF ~stored THEN pFilter.line_count
                  ELSE IF pFilter.line_count = 0 THEN 1
                  ELSE IF r.c = ASCII_LF /\ pFilter.line_count < LONG_MAX
                    THEN pFilter.line_count + 1
                  ELSE pFilter.line_count
            cc == IF r.err # 0 THEN r.err
                  ELSE IF stored THEN r.c
                  ELSE pFilter.c
        IN [fil |-> [line_count |-> lc, c |-> cc, pushback |-> FALSE,
                     bom_present |-> pFilter.bom_present \/ b.bom],
            f |-> r.f, ret |-> cc, fresh |-> stored]
      Read(b, doread) ==
        Store(b, doread, IF doread THEN ReadChar(b.f)
                                   ELSE [err |-> b.err, f |-> b.f, c |-> 0])
      Check(b) == Read(b, MustRead(pFilter, b.err))
  IN Check(IF pFilter.line_count = 0
             THEN BomCheck(f0)
             ELSE [err |-> 0, f |-> f0, bom |-> FALSE])

(***************************************************************************)
(* snfilter_count and snfilter_bomflag.                                    *)
(***************************************************************************)
\* snfilter_count that does not look at the pushback flag
snfilter_count_flagless(pFilter) ==
  LET lc == IF pFilter.line_count < 1 THEN 1 ELSE pFilter.line_count IN
  IF pFilter.line_count > 0 /\ pFilter.c = ASCII_LF /\ lc < LONG_MAX
    THEN lc + 1 ELSE lc

snfilter_count(pFilter) ==
  LET lc == IF pFilter.line_count < 1 THEN 1 ELSE pFilter.line_count IN
  IF ~pFilter.pushback /\ pFilter.line_count > 0
       /\ pFilter.c = ASCII_LF /\ lc < LONG_MAX
    THEN lc + 1 ELSE lc

snfilter_bomflag(pFilter) == pFilter.bom_present

\* snfilter_pushback without its tests: the flag is set by every call
snfilter_pushback_always(pFilter) ==
  [fil |-> [pFilter EXCEPT !.pushback = TRUE], status |-> 1]

(***************************************************************************)
(* snfilter_pushback: the new filter structure and the status returned.    *)
(***************************************************************************)
snfilter_pushback(pFilter) ==
  IF pFilter.line_count = 0 \/ pFilter.c >= 0
    THEN IF pFilter.line_count > 0 /\ ~pFilter.pushback
           THEN [fil |-> [pFilter EXCEPT !.pushback = TRUE], status |-> 1]
           ELSE [fil |-> pFilter, status |-> 0]
    ELSE [fil |-> pFilter, status |-> 1]

(***************************************************************************)
(* The input files of the filter specification: at most MaxChunks chunks,  *)
(* a chunk being a whole byte order mark, one of its first two bytes, a    *)
(* CR, a LF or the letter a; and the streams over them, with a read error  *)
(* at any one place or none.                                               *)
(***************************************************************************)
Chunks ==
  { <<SNFILTER_BOM_1, SNFILTER_BOM_2, SNFILTER_BOM_3>>,
    <<SNFILTER_BOM_1>>, <<SNFILTER_BOM_2>>,
    <<ASCII_CR>>, <<ASCII_LF>>, <<97>> }

RECURSIVE ChunkFiles(_)
ChunkFiles(n) ==
  IF n = 0 THEN { <<>> }
  ELSE LET prev == ChunkFiles(n - 1)
       IN prev \cup { p \o k : p \in prev, k \in Chunks }

Streams(files) ==
  UNION { { [data |-> d, pos |-> 0, errAt |-> e, errSticky |-> st,
             err |-> FALSE, eof |-> FALSE, calls |-> 0]
            : e \in 0..(Len(d) + 1), st \in BOOLEAN }
          : d \in files }

\* a stream over the bytes d that has not been read yet and has no read
\* error
FreshStream(d) ==
  [data |-> d, pos |-> 0, errAt |-> 0, errSticky |-> FALSE,
   err |-> FALSE, eof |-> FALSE, calls |-> 0]

(***************************************************************************)
(* The filter specification: a client that calls snfilter_read and         *)
(* snfilter_pushback in any order on one stream.                           *)
(***************************************************************************)
FilterStart ==
  /\ fil = snfilter_reset
  /\ out = <<>>
  /\ ret = 0
  /\ latched = 0
  /\ srcAfter = FALSE
  /\ bomFirst = FALSE
  /\ started = FALSE
  /\ pbret = 1

FilterRead ==
  LET Done(r) ==
        /\ fil' = r.fil
        /\ pIn' = r.f
        /\ ret' = r.ret
        /\ out' = IF r.fresh THEN Append(out, r.ret) ELSE out
        /\ latched' = IF latched = 0 /\ r.ret \in {SNERR_EOF, SNERR_IOERR}
                        THEN r.ret ELSE latched
        /\ srcAfter' = (srcAfter \/ ((pIn.eof \/ pIn.err) /\ r.f.calls > 0))
        /\ bomFirst' = IF started THEN bomFirst ELSE snfilter_bomflag(r.fil)
        /\ started' = TRUE
        /\ lastop' = "read"
        /\ UNCHANGED <<pbret, blockVars, tokenVars>>
  IN Done(snfilter_read(fil, [pIn EXCEPT !.calls = 0]))

FilterPushback ==
  LET r == snfilter_pushback(fil) IN
  /\ fil' = r.fil
  /\ pbret' = r.status
  /\ lastop' = "pushback"
  /\ UNCHANGED <<pIn, out, ret, latched, srcAfter, bomFirst, started,
                 blockVars, tokenVars>>

(***************************************************************************)
(* Constants of shasm_block.c.  The two buffer capacities and the initial  *)
(* capacity of a temporary buffer are scaled down (the code has 32, 32767  *)
(* and 8), keeping their shape: doubling the minimum capacity repeatedly   *)
(* steps over the maximum by one, as 32 does over 32767.                   *)
(***************************************************************************)
SHASM_BLOCK_MINBUFFER == 4
SHASM_BLOCK_MAXBUFFER == 31
SHASM_BLOCK_MINTBUF == 2

SHASM_BLOCK_MAXCODE == 1114111
SHASM_BLOCK_MINSURROGATE == 55296
SHASM_BLOCK_MAXSURROGATE == 57343
SHASM_BLOCK_HISURROGATE == 55296
SHASM_BLOCK_LOSURROGATE == 56320
SHASM_BLOCK_MINSUPPLEMENTAL == 65536
SHASM_BLOCK_UTF8_2BYTE == 128
SHASM_BLOCK_UTF8_3BYTE == 2048
SHASM_BLOCK_UTF8_4BYTE == 65536
SHASM_BLOCK_UTF8_2MASK == 192
SHASM_BLOCK_UTF8_3MASK == 224
SHASM_BLOCK_UTF8_4MASK == 240

\* shasm_error.h: the codes are only ever compared for equality
SHASM_OKAY == "SHASM_OKAY"
SHASM_ERR_EOF == "SHASM_ERR_EOF"
SHASM_ERR_IO == "SHASM_ERR_IO"
SHASM_ERR_HUGEBLOCK == "SHASM_ERR_HUGEBLOCK"
SHASM_ERR_TOKENCHAR == "SHASM_ERR_TOKENCHAR"

\* shasm_input.h: the special values shasm_input_get returns
SHASM_INPUT_EOF == -1
SHASM_INPUT_IOERR == -2
SHASM_INPUT_BADSIG == -3

\* shasm_ascii.h
SHASM_ASCII_HT == 9
SHASM_ASCII_LF == 10
SHASM_ASCII_CR == 13
SHASM_ASCII_SP == 32
SHASM_ASCII_DQUOTE == 34
SHASM_ASCII_PERCENT == 37
SHASM_ASCII_AMPERSAND == 38
SHASM_ASCII_SQUOTE == 39
SHASM_ASCII_LPAREN == 40
SHASM_ASCII_RPAREN == 41
SHASM_ASCII_COMMA == 44
SHASM_ASCII_SEMICOLON == 59
SHASM_ASCII_LSQR == 91
SHASM_ASCII_RSQR == 93
SHASM_ASCII_LCURL == 123
SHASM_ASCII_BAR == 124
SHASM_ASCII_VISPRINT_MIN == 33
SHASM_ASCII_VISPRINT_MAX == 126

\* shasm_block.h: the output override modes
SHASM_BLOCK_OMODE_NONE == "NONE"
SHASM_BLOCK_OMODE_UTF8 == "UTF8"
SHASM_BLOCK_OMODE_CESU8 == "CESU8"
SHASM_BLOCK_OMODE_U16LE == "U16LE"
SHASM_BLOCK_OMODE_U16BE == "U16BE"
SHASM_BLOCK_OMODE_U32LE == "U32LE"
SHASM_BLOCK_OMODE_U32BE == "U32BE"

(***************************************************************************)
(* Helpers: a sequence of n zero bytes, and the bitwise operations of C on *)
(* non-negative integers.                                                  *)
(***************************************************************************)
Zeros(n) == [i \in 1..n |-> 0]

RECURSIVE BitAnd(_, _)
BitAnd(a, b) ==
  IF a = 0 \/ b = 0 THEN 0
  ELSE (IF a % 2 = 1 /\ b % 2 = 1 THEN 1 ELSE 0)
       + 2 * BitAnd(a \div 2, b \div 2)

RECURSIVE BitOr(_, _)
BitOr(a, b) ==
  IF a = 0 THEN b
  ELSE IF b = 0 THEN a
  ELSE (IF a % 2 = 1 \/ b % 2 = 1 THEN 1 ELSE 0)
       + 2 * BitOr(a \div 2, b \div 2)

RECURSIVE ShiftRight(_, _)
ShiftRight(a, n) == IF n = 0 THEN a ELSE ShiftRight(a \div 2, n - 1)

(***************************************************************************)
(* shasm_block_alloc: the block reader as allocated.                       *)
(***************************************************************************)
shasm_block_alloc ==
  [code |-> SHASM_OKAY, line |-> 1,
   buf_cap |-> SHASM_BLOCK_MINBUFFER, buf_len |-> 0,
   null_present |-> FALSE, pBuf |-> Zeros(SHASM_BLOCK_MINBUFFER)]

(***************************************************************************)
(* shasm_block_free: the buffer and then the structure are released.       *)
(* NoBlock stands for the block reader that is no more: no buffer, and a   *)
(* line number of zero, which no block reader in use has.                  *)
(***************************************************************************)
NoBlock ==
  [code |-> SHASM_OKAY, line |-> 0, buf_cap |-> 0, buf_len |-> 0,
   null_present |-> FALSE, pBuf |-> <<>>]

shasm_block_free(b) == NoBlock

(***************************************************************************)
(* shasm_block_clear.                                                      *)
(***************************************************************************)
shasm_block_clear(b) ==
  [b EXCEPT !.buf_len = 0, !.null_present = FALSE,
            !.pBuf = Zeros(b.buf_cap)]

(***************************************************************************)
(* shasm_block_addByte: whether the buffer is refused any further growth.  *)
(***************************************************************************)
AtCeiling(b) == b.buf_len >= SHASM_BLOCK_MAXBUFFER

(***************************************************************************)
(* shasm_block_addByte: the new block reader and the status returned.  The *)
(* enlarged buffer keeps its first buf_len bytes and is zero from there.   *)
(***************************************************************************)
shasm_block_addByte(b, c) ==
  IF b.code # SHASM_OKAY THEN [pb |-> b, status |-> 0]
  ELSE IF b.buf_len >= b.buf_cap - 1 /\ AtCeiling(b)
    THEN [pb |-> b, status |-> 0]
  ELSE
    LET cap == IF b.buf_len >= b.buf_cap - 1
                 THEN IF b.buf_cap * 2 > SHASM_BLOCK_MAXBUFFER
                        THEN SHASM_BLOCK_MAXBUFFER
                        ELSE b.buf_cap * 2
                 ELSE b.buf_cap
        mem == IF b.buf_len >= b.buf_cap - 1
                 THEN SubSeq(b.pBuf, 1, b.buf_len) \o Zeros(cap - b.buf_len)
                 ELSE b.pBuf
    IN [pb |-> [b EXCEPT !.buf_cap = cap,
                         !.null_present = (b.null_present \/ c = 0),
                         !.pBuf = [mem EXCEPT ![b.buf_len + 1] = c],
                         !.buf_len = b.buf_len + 1],
        status |-> 1]

\* shasm_block_addByte for each byte of a sequence, up to the first failure
RECURSIVE AddBytes(_, _)
AddBytes(b, bytes) ==
  IF bytes = <<>> THEN [pb |-> b, status |-> 1]
  ELSE LET a == shasm_block_addByte(b, Head(bytes))
       IN IF a.status = 0 THEN a ELSE AddBytes(a.pb, Tail(bytes))

(***************************************************************************)
(* The temporary buffer: its length and its bytes (no bytes while NULL).   *)
(***************************************************************************)
shasm_block_tbuf_init == [len |-> 0, pBuf |-> <<>>]

shasm_block_tbuf_reset(pt) == [len |-> 0, pBuf |-> <<>>]

\* shasm_block_tbuf_widen: the loop that doubles the target length
RECURSIVE WidenTarget(_, _)
WidenTarget(tl, tlen) == IF tl < tlen THEN WidenTarget(tl * 2, tlen) ELSE tl

shasm_block_tbuf_widen(pt, tlen) ==
  IF tlen > SHASM_BLOCK_MAXBUFFER THEN [pt |-> pt, status |-> 0]
  ELSE
    LET tl == WidenTarget(IF pt.len < 1 THEN SHASM_BLOCK_MINTBUF ELSE pt.len,
                          tlen)
        len == IF tlen > pt.len
                 THEN IF tl > SHASM_BLOCK_MAXBUFFER
                        THEN SHASM_BLOCK_MAXBUFFER ELSE tl
                 ELSE pt.len
    IN [pt |-> [len |-> len, pBuf |-> Zeros(len)], status |-> 1]

shasm_block_tbuf_ptr(pt) == pt.pBuf

shasm_block_tbuf_len(pt) == pt.len

(***************************************************************************)
(* shasm_block_pair: the surrogate pair of a supplemental codepoint.       *)
(***************************************************************************)
\* shasm_block_pair with the two surrogates exchanged
shasm_block_pair_swapped(code) ==
  LET offs == code - SHASM_BLOCK_MINSUPPLEMENTAL
  IN [hi |-> BitAnd(offs, 1023) + SHASM_BLOCK_LOSURROGATE,
      lo |-> BitAnd(ShiftRight(offs, 10), 1023) + SHASM_BLOCK_HISURROGATE]

shasm_block_pair(code) ==
  LET offs == code - SHASM_BLOCK_MINSUPPLEMENTAL
  IN [hi |-> BitAnd(ShiftRight(offs, 10), 1023) + SHASM_BLOCK_HISURROGATE,
      lo |-> BitAnd(offs, 1023) + SHASM_BLOCK_LOSURROGATE]

(***************************************************************************)
(* The encoding tables a caller may supply.  "test" is the table that      *)
(* test_block.c documents; the others are minimal tables: one that defines *)
(* nothing, one that yields a zero byte, and one whose output for 'H' is   *)
(* longer than any buffer may become.                                      *)
(***************************************************************************)
EncTables == {"empty", "test", "nul", "huge"}

Smiley == <<58, 45, 41>>

RECURSIVE Smileys(_)
Smileys(n) == IF n = 0 THEN <<>> ELSE Smiley \o Smileys(n - 1)

TestTable(entity) ==
  IF entity >= 65 /\ entity <= 90 THEN <<entity + 32>>
  ELSE IF entity = 126 THEN <<>>
  ELSE IF entity >= 33 /\ entity <= 126 THEN <<entity>>
  ELSE IF entity \in {SHASM_ASCII_SP, SHASM_ASCII_LF} THEN <<entity>>
  ELSE IF entity \in {196, 214, 220, 228, 246, 252, 223} THEN <<entity>>
  ELSE IF entity >= 2097153 /\ entity <= 2097161
    THEN Smileys(entity - 2097152)
  ELSE <<>>

TableBytes(table, entity) ==
  CASE table = "empty" -> <<>>
    [] table = "test" -> TestTable(entity)
    [] table = "nul" -> IF entity = 72 THEN <<0>> ELSE <<>>
    [] table = "huge" -> IF entity = 72
                           THEN Zeros(SHASM_BLOCK_MAXBUFFER + 1) ELSE <<>>

\* the fpMap callback: the length of the output, which is written to the
\* buffer handed in only if that buffer is long enough
enc_map(table, entity, pt) ==
  LET bytes == TableBytes(table, entity)
  IN [lv |-> Len(bytes),
      pt |-> IF pt.len >= Len(bytes)
               THEN [pt EXCEPT !.pBuf = bytes
                                 \o SubSeq(pt.pBuf, Len(bytes) + 1, pt.len)]
               ELSE pt]

(***************************************************************************)
(* shasm_block_ereg: encode an entity with the encoding table.  The loop   *)
(* runs the callback, widens the temporary buffer if it was too short and  *)
(* runs the callback again.  maps counts the runs of the fpMap callback.   *)
(***************************************************************************)
\* shasm_block_ereg that does not run the callback again after widening
shasm_block_ereg_once(b, entity, penc, pt) ==
  IF b.code # SHASM_OKAY THEN [pb |-> b, pt |-> pt, status |-> 0, maps |-> 0]
  ELSE
    LET m1 == enc_map(penc, entity, pt)
        w == IF shasm_block_tbuf_len(m1.pt) >= m1.lv
               THEN [pt |-> m1.pt, status |-> 1]
               ELSE shasm_block_tbuf_widen(m1.pt, m1.lv)
        a == AddBytes(b, SubSeq(shasm_block_tbuf_ptr(w.pt), 1, m1.lv))
    IN IF w.status = 0 THEN [pb |-> b, pt |-> w.pt, status |-> 0, maps |-> 1]
       ELSE [pb |-> a.pb, pt |-> w.pt, status |-> a.status, maps |-> 1]

shasm_block_ereg(b, entity, penc, pt) ==
  IF b.code # SHASM_OKAY THEN [pb |-> b, pt |-> pt, status |-> 0, maps |-> 0]
  ELSE
    LET m1 == enc_map(penc, entity, pt)
    IN IF shasm_block_tbuf_len(m1.pt) >= m1.lv
         THEN LET a == AddBytes(b, SubSeq(shasm_block_tbuf_ptr(m1.pt),
                                          1, m1.lv))
              IN [pb |-> a.pb, pt |-> m1.pt, status |-> a.status, maps |-> 1]
         ELSE
           LET w == shasm_block_tbuf_widen(m1.pt, m1.lv)
           IN IF w.status = 0
                THEN [pb |-> b, pt |-> w.pt, status |-> 0, maps |-> 1]
              ELSE
                LET m2 == enc_map(penc, entity, w.pt)
                    a == AddBytes(b, SubSeq(shasm_block_tbuf_ptr(m2.pt),
                                            1, m2.lv))
                IN [pb |-> a.pb, pt |-> m2.pt, status |-> a.status,
                    maps |-> 2]

(***************************************************************************)
(* shasm_block_utf8: UTF-8 or CESU-8 encoding of a codepoint.              *)
(***************************************************************************)
\* shasm_block_utf8 without the reversal of the continuation bytes
RECURSIVE shasm_block_utf8_unswapped(_, _, _)
shasm_block_utf8_unswapped(b, entity0, cesu8) ==
  IF b.code # SHASM_OKAY THEN [pb |-> b, status |-> 0]
  ELSE
    LET split == cesu8 /\ entity0 >= SHASM_BLOCK_MINSUPPLEMENTAL
        s == shasm_block_pair(entity0)
        h == IF split THEN shasm_block_utf8_unswapped(b, s.hi, FALSE)
                      ELSE [pb |-> b, status |-> 1]
        entity == IF split THEN s.lo ELSE entity0
        codelen == IF entity < SHASM_BLOCK_UTF8_2BYTE THEN 1
                   ELSE IF entity < SHASM_BLOCK_UTF8_3BYTE THEN 2
                   ELSE IF entity < SHASM_BLOCK_UTF8_4BYTE THEN 3
                   ELSE 4
        contb == [i \in 1..(codelen - 1) |->
                    BitOr(BitAnd(ShiftRight(entity, 6 * (i - 1)), 63), 128)]
        rest == ShiftRight(entity, 6 * (codelen - 1))
        lead == IF codelen = 2 THEN BitOr(rest, SHASM_BLOCK_UTF8_2MASK)
                ELSE IF codelen = 3 THEN BitOr(rest, SHASM_BLOCK_UTF8_3MASK)
                ELSE IF codelen = 4 THEN BitOr(rest, SHASM_BLOCK_UTF8_4MASK)
                ELSE rest
    IN IF h.status = 0 THEN [pb |-> h.pb, status |-> 0]
       ELSE AddBytes(h.pb, <<lead>> \o contb)

RECURSIVE shasm_block_utf8(_, _, _)
shasm_block_utf8(b, entity0, cesu8) ==
  IF b.code # SHASM_OKAY THEN [pb |-> b, status |-> 0]
  ELSE
    LET split == cesu8 /\ entity0 >= SHASM_BLOCK_MINSUPPLEMENTAL
        s == shasm_block_pair(entity0)
        h == IF split THEN shasm_block_utf8(b, s.hi, FALSE)
                      ELSE [pb |-> b, status |-> 1]
        entity == IF split THEN s.lo ELSE entity0
        codelen == IF entity < SHASM_BLOCK_UTF8_2BYTE THEN 1
                   ELSE IF entity < SHASM_BLOCK_UTF8_3BYTE THEN 2
                   ELSE IF entity < SHASM_BLOCK_UTF8_4BYTE THEN 3
                   ELSE 4
        \* continuation bytes in output order
        contb == [i \in 1..(codelen - 1) |->
                    BitOr(BitAnd(ShiftRight(entity, 6 * (codelen - 1 - i)),
                                 63), 128)]
        rest == ShiftRight(entity, 6 * (codelen - 1))
        lead == IF codelen = 2 THEN BitOr(rest, SHASM_BLOCK_UTF8_2MASK)
                ELSE IF codelen = 3 THEN BitOr(rest, SHASM_BLOCK_UTF8_3MASK)
                ELSE IF codelen = 4 THEN BitOr(rest, SHASM_BLOCK_UTF8_4MASK)
                ELSE rest
    IN IF h.status = 0 THEN [pb |-> h.pb, status |-> 0]
       ELSE AddBytes(h.pb, <<lead>> \o contb)

(***************************************************************************)
(* shasm_block_utf16: UTF-16 encoding of a codepoint, either byte order.   *)
(***************************************************************************)
RECURSIVE shasm_block_utf16(_, _, _)
shasm_block_utf16(b, entity0, big) ==
  IF b.code # SHASM_OKAY THEN [pb |-> b, status |-> 0]
  ELSE
    LET split == entity0 >= SHASM_BLOCK_MINSUPPLEMENTAL
        s == shasm_block_pair(entity0)
        h == IF split THEN shasm_block_utf16(b, s.hi, big)
                      ELSE [pb |-> b, status |-> 1]
        entity == IF split THEN s.lo ELSE entity0
        vb0 == BitAnd(entity, 255)
        vb1 == BitAnd(ShiftRight(entity, 8), 255)
    IN IF h.status = 0 THEN [pb |-> h.pb, status |-> 0]
       ELSE AddBytes(h.pb, IF big THEN <<vb1, vb0>> ELSE <<vb0, vb1>>)

(***************************************************************************)
(* shasm_block_utf32: UTF-32 encoding of a codepoint, either byte order.   *)
(***************************************************************************)
\* shasm_block_utf32 without the reversal for the big-endian order
shasm_block_utf32_little(b, entity, big) ==
  IF b.code # SHASM_OKAY THEN [pb |-> b, status |-> 0]
  ELSE AddBytes(b, <<BitAnd(entity, 255), BitAnd(ShiftRight(entity, 8), 255),
                     BitAnd(ShiftRight(entity, 16), 255),
                     BitAnd(ShiftRight(entity, 24), 255)>>)

shasm_block_utf32(b, entity, big) ==
  IF b.code # SHASM_OKAY THEN [pb |-> b, status |-> 0]
  ELSE
    LET vb0 == BitAnd(entity, 255)
        vb1 == BitAnd(ShiftRight(entity, 8), 255)
        vb2 == BitAnd(ShiftRight(entity, 16), 255)
        vb3 == BitAnd(ShiftRight(entity, 24), 255)
    IN AddBytes(b, IF big THEN <<vb3, vb2, vb1, vb0>>
                          ELSE <<vb0, vb1, vb2, vb3>>)

(***************************************************************************)
(* shasm_block_encode: the override mode that applies to the entity, and   *)
(* the dispatch to the encoder of that mode.                               *)
(***************************************************************************)
\* OverMode without the strict flag
OverMode_loose(entity, o_over, o_strict) ==
  IF entity > SHASM_BLOCK_MAXCODE THEN SHASM_BLOCK_OMODE_NONE ELSE o_over

OverMode(entity, o_over, o_strict) ==
  IF entity > SHASM_BLOCK_MAXCODE THEN SHASM_BLOCK_OMODE_NONE
  ELSE IF o_strict /\ entity >= SHASM_BLOCK_MINSURROGATE
                   /\ entity <= SHASM_BLOCK_MAXSURROGATE
    THEN SHASM_BLOCK_OMODE_NONE
  ELSE o_over

\* shasm_block_encode with CESU-8 dispatched as UTF-8
shasm_block_encode_nocesu(b, entity, penc, o_over, o_strict, pt) ==
  IF b.code # SHASM_OKAY THEN [pb |-> b, pt |-> pt, status |-> 0, maps |-> 0]
  ELSE
    LET mode == OverMode(entity, o_over, o_strict)
        Keep(r) == [pb |-> r.pb, pt |-> pt, status |-> r.status, maps |-> 0]
    IN CASE mode = SHASM_BLOCK_OMODE_NONE ->
              shasm_block_ereg(b, entity, penc, pt)
         [] mode \in {SHASM_BLOCK_OMODE_UTF8, SHASM_BLOCK_OMODE_CESU8} ->
              Keep(shasm_block_utf8(b, entity, FALSE))
         [] mode = SHASM_BLOCK_OMODE_U16LE ->
              Keep(shasm_block_utf16(b, entity, FALSE))
         [] mode = SHASM_BLOCK_OMODE_U16BE ->
              Keep(shasm_block_utf16(b, entity, TRUE))
         [] mode = SHASM_BLOCK_OMODE_U32LE ->
              Keep(shasm_block_utf32(b, entity, FALSE))
         [] mode = SHASM_BLOCK_OMODE_U32BE ->
              Keep(shasm_block_utf32(b, entity, TRUE))

shasm_block_encode(b, entity, penc, o_over, o_strict, pt) ==
  IF b.code # SHASM_OKAY THEN [pb |-> b, pt |-> pt, status |-> 0, maps |-> 0]
  ELSE
    LET mode == OverMode(entity, o_over, o_strict)
        Keep(r) == [pb |-> r.pb, pt |-> pt, status |-> r.status, maps |-> 0]
    IN CASE mode = SHASM_BLOCK_OMODE_NONE ->
              shasm_block_ereg(b, entity, penc, pt)
         [] mode = SHASM_BLOCK_OMODE_UTF8 ->
              Keep(shasm_block_utf8(b, entity, FALSE))
         [] mode = SHASM_BLOCK_OMODE_CESU8 ->
              Keep(shasm_block_utf8(b, entity, TRUE))
         [] mode = SHASM_BLOCK_OMODE_U16LE ->
              Keep(shasm_block_utf16(b, entity, FALSE))
         [] mode = SHASM_BLOCK_OMODE_U16BE ->
              Keep(shasm_block_utf16(b, entity, TRUE))
         [] mode = SHASM_BLOCK_OMODE_U32LE ->
              Keep(shasm_block_utf32(b, entity, FALSE))
         [] mode = SHASM_BLOCK_OMODE_U32BE ->
              Keep(shasm_block_utf32(b, entity, TRUE))

OverModes ==
  {SHASM_BLOCK_OMODE_NONE, SHASM_BLOCK_OMODE_UTF8, SHASM_BLOCK_OMODE_CESU8,
   SHASM_BLOCK_OMODE_U16LE, SHASM_BLOCK_OMODE_U16BE,
   SHASM_BLOCK_OMODE_U32LE, SHASM_BLOCK_OMODE_U32BE}

(***************************************************************************)
(* rawInput of test_block.c: the raw input callback, reading the stream.   *)
(***************************************************************************)
rawInput(f0) ==
  LET Got(g) ==
        [c |-> IF g.c = C_EOF
                 THEN IF feof(g.f) THEN SHASM_INPUT_EOF ELSE SHASM_INPUT_IOERR
                 ELSE g.c,
         f |-> g.f]
  IN Got(getc(f0))

(***************************************************************************)
(* The input filter chain the block reader reads from (shasm_input).  Its  *)
(* state: the raw source, a raw byte peeked at and given back (ahead), the *)
(* line of the last character delivered (0 before the first), the last     *)
(* character or sentinel delivered, the pushback flag and the BOM flag.    *)
(* A sentinel, once delivered, is delivered by every later read.           *)
(***************************************************************************)
shasm_input_alloc(f) ==
  [src |-> f, ahead |-> <<>>, line_count |-> 0, c |-> 0,
   pushback |-> FALSE, bom_present |-> FALSE]

RawGet(s) ==
  LET Got(r) == [c |-> r.c, s |-> [s EXCEPT !.src = r.f]]
  IN IF s.ahead # <<>>
       THEN [c |-> s.ahead[1], s |-> [s EXCEPT !.ahead = <<>>]]
       ELSE Got(rawInput(s.src))

RawUnget(s, c) == [s EXCEPT !.ahead = <<c>>]

\* before the first byte is delivered: the byte order mark
InputBom(s0) ==
  LET Third(r3) ==
        IF r3.c = SHASM_INPUT_IOERR THEN [err |-> r3.c, s |-> r3.s]
        ELSE IF r3.c # SNFILTER_BOM_3
          THEN [err |-> SHASM_INPUT_BADSIG, s |-> r3.s]
        ELSE [err |-> 0, s |-> [r3.s EXCEPT !.bom_present = TRUE]]
      Second(r2) ==
        IF r2.c = SHASM_INPUT_IOERR THEN [err |-> r2.c, s |-> r2.s]
        ELSE IF r2.c # SNFILTER_BOM_2
          THEN [err |-> SHASM_INPUT_BADSIG, s |-> r2.s]
        ELSE Third(RawGet(r2.s))
      First(r1) ==
        IF r1.c < 0 THEN [err |-> r1.c, s |-> r1.s]
        ELSE IF r1.c # SNFILTER_BOM_1
          THEN [err |-> 0, s |-> RawUnget(r1.s, r1.c)]
        ELSE Second(RawGet(r1.s))
  IN First(RawGet(s0))

\* one character with its line ending normalized
InputChar(s0) ==
  LET Second(r1, r2) ==
        LET pair == \/ (r1.c = SHASM_ASCII_LF /\ r2.c = SHASM_ASCII_CR)
                    \/ (r1.c = SHASM_ASCII_CR /\ r2.c = SHASM_ASCII_LF)
        IN IF r2.c = SHASM_INPUT_IOERR THEN [c |-> r2.c, s |-> r2.s]
           ELSE IF pair \/ r2.c = SHASM_INPUT_EOF
             THEN [c |-> SHASM_ASCII_LF, s |-> r2.s]
           ELSE [c |-> SHASM_ASCII_LF, s |-> RawUnget(r2.s, r2.c)]
      First(r1) ==
        IF r1.c < 0 THEN [c |-> r1.c, s |-> r1.s]
        ELSE IF r1.c \notin {SHASM_ASCII_LF, SHASM_ASCII_CR}
          THEN [c |-> r1.c, s |-> r1.s]
        ELSE Second(r1, RawGet(r1.s))
  IN First(RawGet(s0))

shasm_input_get(s) ==
  LET Deliver(r) ==
        LET lc == IF r.c < 0 THEN s.line_count
                  ELSE IF s.line_count = 0 THEN 1
                  ELSE IF s.c = SHASM_ASCII_LF /\ s.line_count < LONG_MAX
                    THEN s.line_count + 1
                  ELSE s.line_count
        IN [c |-> r.c, ps |-> [r.s EXCEPT !.c = r.c, !.line_count = lc]]
      Read(b) ==
        Deliver(IF b.err # 0 THEN [c |-> b.err, s |-> b.s]
                             ELSE InputChar(b.s))
  IN IF s.pushback THEN [c |-> s.c, ps |-> [s EXCEPT !.pushback = FALSE]]
     ELSE IF s.c < 0 THEN [c |-> s.c, ps |-> s]
     ELSE Read(IF s.line_count = 0 THEN InputBom(s)
                                   ELSE [err |-> 0, s |-> s])

shasm_input_count(s) ==
  IF s.line_count < 1 THEN 1
  ELSE IF ~s.pushback /\ s.c = SHASM_ASCII_LF /\ s.line_count < LONG_MAX
    THEN s.line_count + 1
  ELSE s.line_count

shasm_input_back(s) ==
  IF s.c < 0 \/ s.pushback \/ s.line_count = 0 THEN s
  ELSE [s EXCEPT !.pushback = TRUE]

(***************************************************************************)
(* shasm_block_seterr: latch an error, unless one is latched already.      *)
(***************************************************************************)
seterr_unguarded(b, s, code) ==
  [shasm_block_clear(b) EXCEPT !.code = code,
                               !.line = shasm_input_count(s)]

shasm_block_seterr(b, s, code) ==
  IF b.code = SHASM_OKAY
    THEN [shasm_block_clear(b) EXCEPT !.code = code,
                                      !.line = shasm_input_count(s)]
    ELSE b

(***************************************************************************)
(* shasm_block_token, in the steps of its code.  Each step yields the      *)
(* block reader, the input filter and the status; the reading steps also   *)
(* yield the character read.                                               *)
(***************************************************************************)
\* the check on entry: the status a call starts with
TokenEntry_Always(b) == 1

TokenEntry(b) == IF b.code # SHASM_OKAY THEN 0 ELSE 1

\* the test for EOF and I/O error that follows each read
Checked(b, g) ==
  IF g.c = SHASM_INPUT_EOF
    THEN [pb |-> shasm_block_seterr(b, g.ps, SHASM_ERR_EOF),
          ps |-> g.ps, c |-> g.c, status |-> 0]
  ELSE IF g.c = SHASM_INPUT_IOERR
    THEN [pb |-> shasm_block_seterr(b, g.ps, SHASM_ERR_IO),
          ps |-> g.ps, c |-> g.c, status |-> 0]
  ELSE [pb |-> b, ps |-> g.ps, c |-> g.c, status |-> 1]

\* read a character, failing on EOF or I/O error
GetChecked(b, s) == Checked(b, shasm_input_get(s))

\* append a byte, failing if the buffer is full
AppendOrFail(b, s, c) ==
  LET Added(a) ==
        IF a.status = 0
          THEN [pb |-> shasm_block_seterr(a.pb, s, SHASM_ERR_HUGEBLOCK),
                ps |-> s, status |-> 0]
          ELSE [pb |-> a.pb, ps |-> s, status |-> 1]
  IN Added(shasm_block_addByte(b, c))

\* the loop over HT, SP and LF
RECURSIVE SkipBlank(_)
SkipBlank(s) ==
  LET Got(g) ==
        IF g.c \in {SHASM_ASCII_HT, SHASM_ASCII_SP, SHASM_ASCII_LF}
          THEN SkipBlank(g.ps) ELSE g
  IN Got(shasm_input_get(s))

\* the loop over the characters of a comment
RECURSIVE SkipComment(_)
SkipComment(s) ==
  LET Got(g) ==
        IF g.c \notin {SHASM_ASCII_LF, SHASM_INPUT_EOF, SHASM_INPUT_IOERR}
          THEN SkipComment(g.ps) ELSE g
  IN Got(shasm_input_get(s))

\* TokenSkip that leaves the line field of the block reader as it is
RECURSIVE TokenSkip_noline(_, _)
TokenSkip_noline(b, s) ==
  LET Comment(k) ==
        IF k.status = 0 THEN [pb |-> k.pb, ps |-> k.ps, status |-> 0]
        ELSE TokenSkip_noline(b, k.ps)
      Blank(r) ==
        IF r.status = 0 THEN [pb |-> r.pb, ps |-> r.ps, status |-> 0]
        ELSE IF r.c # SHASM_ASCII_AMPERSAND
          THEN [pb |-> b, ps |-> shasm_input_back(r.ps), status |-> 1]
        ELSE Comment(Checked(b, SkipComment(r.ps)))
  IN Blank(Checked(b, SkipBlank(s)))

\* the loop over whitespace and comments
RECURSIVE TokenSkip(_, _)
TokenSkip(b, s) ==
  LET Comment(k) ==
        IF k.status = 0 THEN [pb |-> k.pb, ps |-> k.ps, status |-> 0]
        ELSE TokenSkip(b, k.ps)
      Blank(r) ==
        IF r.status = 0 THEN [pb |-> r.pb, ps |-> r.ps, status |-> 0]
        ELSE IF r.c # SHASM_ASCII_AMPERSAND
          THEN [pb |-> [b EXCEPT !.line = shasm_input_count(r.ps)],
                ps |-> shasm_input_back(r.ps), status |-> 1]
        ELSE Comment(Checked(b, SkipComment(r.ps)))
  IN Blank(Checked(b, SkipBlank(s)))

InVisPrint(c) ==
  c >= SHASM_ASCII_VISPRINT_MIN /\ c <= SHASM_ASCII_VISPRINT_MAX

\* the first character of the token
TokenFirst(b, s) ==
  LET Got(r) ==
        IF r.status = 0 THEN [pb |-> r.pb, ps |-> r.ps, status |-> 0]
        ELSE IF ~InVisPrint(r.c)
          THEN [pb |-> shasm_block_seterr(r.pb, r.ps, SHASM_ERR_TOKENCHAR),
                ps |-> r.ps, status |-> 0]
        ELSE AppendOrFail(r.pb, r.ps, r.c)
  IN Got(GetChecked(b, s))

\* after a vertical bar: the character that follows it
TokenBar(b, s) ==
  LET Got(r) ==
        IF r.status = 1 /\ r.c = SHASM_ASCII_SEMICOLON
          THEN AppendOrFail(r.pb, r.ps, r.c)
          ELSE [pb |-> r.pb, ps |-> shasm_input_back(r.ps),
                status |-> r.status]
  IN Got(GetChecked(b, s))

AtomicStart ==
  {SHASM_ASCII_LPAREN, SHASM_ASCII_RPAREN, SHASM_ASCII_LSQR,
   SHASM_ASCII_RSQR, SHASM_ASCII_COMMA, SHASM_ASCII_PERCENT,
   SHASM_ASCII_SEMICOLON, SHASM_ASCII_DQUOTE, SHASM_ASCII_SQUOTE,
   SHASM_ASCII_LCURL}

\* whether further characters are read after the first ones
ReadsMore(b) ==
  b.pBuf[1] \notin AtomicStart /\ b.pBuf[2] # SHASM_ASCII_SEMICOLON

StopChars ==
  {SHASM_ASCII_HT, SHASM_ASCII_SP, SHASM_ASCII_LF, SHASM_ASCII_LPAREN,
   SHASM_ASCII_RPAREN, SHASM_ASCII_LSQR, SHASM_ASCII_RSQR,
   SHASM_ASCII_COMMA, SHASM_ASCII_PERCENT, SHASM_ASCII_SEMICOLON,
   SHASM_ASCII_AMPERSAND, SHASM_ASCII_DQUOTE, SHASM_ASCII_SQUOTE,
   SHASM_ASCII_LCURL}

InclusiveStop == {SHASM_ASCII_DQUOTE, SHASM_ASCII_SQUOTE, SHASM_ASCII_LCURL}

\* the loop over the further characters, up to the stop character
RECURSIVE TokenLoop(_, _)
TokenLoop(b, s) ==
  LET Added(a, c) ==
        IF a.status = 0
          THEN [pb |-> a.pb, ps |-> a.ps, c |-> c, status |-> 0]
          ELSE TokenLoop(a.pb, a.ps)
      Got(r) ==
        IF r.status = 0 \/ r.c \in StopChars THEN r
        ELSE IF ~InVisPrint(r.c)
          THEN [pb |-> shasm_block_seterr(r.pb, r.ps, SHASM_ERR_TOKENCHAR),
                ps |-> r.ps, c |-> r.c, status |-> 0]
        ELSE Added(AppendOrFail(r.pb, r.ps, r.c), r.c)
  IN Got(GetChecked(b, s))

\* the further characters and the stop character
TokenRest(b, s) ==
  LET Stopped(r) ==
        IF r.status = 0 THEN [pb |-> r.pb, ps |-> r.ps, status |-> 0]
        ELSE IF r.c \in InclusiveStop THEN AppendOrFail(r.pb, r.ps, r.c)
        ELSE [pb |-> r.pb, ps |-> shasm_input_back(r.ps), status |-> 1]
  IN Stopped(TokenLoop(b, s))

shasm_block_token(b, s) ==
  LET Rest(v) ==
        IF v.status = 1 /\ ReadsMore(v.pb) THEN TokenRest(v.pb, v.ps) ELSE v
      Bar(f) ==
        IF f.status = 0 THEN f
        ELSE Rest(IF f.pb.pBuf[1] = SHASM_ASCII_BAR
                    THEN TokenBar(f.pb, f.ps) ELSE f)
      Skipped(k) ==
        IF k.status = 0 THEN k
        ELSE Bar(TokenFirst(shasm_block_clear(k.pb), k.ps))
  IN IF TokenEntry(b) = 0 THEN [pb |-> b, ps |-> s, status |-> 0]
     ELSE Skipped(TokenSkip(b, s))

(***************************************************************************)
(* shasm_block_string.  As the code stands it reads nothing: it encodes a  *)
(* fixed sequence of entities with the encoding table, override mode and   *)
(* strict flag of the string parameters, up to the first failure.          *)
(***************************************************************************)
TestEntities ==
  <<72, 105, 126, 36, 162, 8364, 66376, 223, 10, 2097157, 55297, 66615,
    150370, 33>>

RECURSIVE EncodeAll(_, _, _, _)
EncodeAll(b, entities, sp, pt) ==
  LET Encoded(e) ==
        IF e.status = 0 THEN e
        ELSE EncodeAll(e.pb, Tail(entities), sp, e.pt)
  IN IF entities = <<>> THEN [pb |-> b, pt |-> pt, status |-> 1]
     ELSE Encoded(shasm_block_encode(b, Head(entities), sp.enc, sp.o_over,
                                     sp.o_strict, pt))

\* shasm_block_string without the error state after a call that failed
shasm_block_string_keep(b, s, sp) ==
  LET e == EncodeAll(b, TestEntities, sp, shasm_block_tbuf_init)
  IN [pb |-> e.pb, ps |-> s, status |-> e.status]

shasm_block_string(b, s, sp) ==
  LET Encoded(e) ==
        IF e.status = 0
          THEN [pb |-> shasm_block_seterr(e.pb, s, SHASM_ERR_HUGEBLOCK),
                ps |-> s, status |-> 0]
          ELSE [pb |-> e.pb, ps |-> s, status |-> 1]
  IN Encoded(EncodeAll(b, TestEntities, sp, shasm_block_tbuf_init))

(***************************************************************************)
(* The queries.  shasm_block_status writes the line through pLine only in  *)
(* error state.  shasm_block_ptr writes a zero to the start of the buffer  *)
(* in error state; it yields the buffer, or NULL.                          *)
(***************************************************************************)
shasm_block_status(b, pLine) ==
  [code |-> b.code, pLine |-> IF b.code # SHASM_OKAY THEN b.line ELSE pLine]

shasm_block_count(b) == IF b.code = SHASM_OKAY THEN b.buf_len ELSE 0

shasm_block_ptr(b, null_term) ==
  IF b.code # SHASM_OKAY
    THEN LET w == [b EXCEPT !.pBuf[1] = 0]
         IN [pb |-> w, pc |-> [null |-> FALSE, bytes |-> w.pBuf]]
  ELSE IF null_term /\ b.null_present
    THEN [pb |-> b, pc |-> [null |-> TRUE, bytes |-> <<>>]]
  ELSE [pb |-> b, pc |-> [null |-> FALSE, bytes |-> b.pBuf]]

line_stored(b) == b.line

shasm_block_line(b) == IF b.code = SHASM_OKAY THEN b.line ELSE LONG_MAX

(***************************************************************************)
(* The block reader specification: a test program like test_block.c that   *)
(* allocates a block reader and an input filter over its input, and then   *)
(* calls shasm_block_token, shasm_block_string and the queries in any      *)
(* order.  An input file is a run of letters followed by a few bytes.      *)
(***************************************************************************)
RunLengths ==
  {0, 1, SHASM_BLOCK_MAXBUFFER - 1, SHASM_BLOCK_MAXBUFFER,
   SHASM_BLOCK_MAXBUFFER + 1}

TailBytes ==
  {SHASM_ASCII_SP, SHASM_ASCII_LF, SHASM_ASCII_BAR, SHASM_ASCII_SEMICOLON,
   SHASM_ASCII_DQUOTE, SHASM_ASCII_AMPERSAND, 1}

RECURSIVE Tails(_)
Tails(n) ==
  IF n = 0 THEN { <<>> }
  ELSE LET prev == Tails(n - 1)
       IN prev \cup { Append(t, x) : t \in prev, x \in TailBytes }

\* a token of n letters
Letters(n) == [i \in 1..n |-> 97]

BlockFiles == { Letters(n) \o t : n \in RunLengths, t \in Tails(MaxTail) }

BlockStreams ==
  UNION { { [data |-> d, pos |-> 0, errAt |-> e, errSticky |-> FALSE,
             err |-> FALSE, eof |-> FALSE, calls |-> 0]
            : e \in {0, Len(d) + 1} } : d \in BlockFiles }

StringSpecs ==
  { [enc |-> "empty", o_over |-> SHASM_BLOCK_OMODE_NONE, o_strict |-> FALSE],
    [enc |-> "test", o_over |-> SHASM_BLOCK_OMODE_NONE, o_strict |-> FALSE],
    [enc |-> "nul", o_over |-> SHASM_BLOCK_OMODE_NONE, o_strict |-> TRUE],
    [enc |-> "huge", o_over |-> SHASM_BLOCK_OMODE_NONE, o_strict |-> FALSE],
    [enc |-> "test", o_over |-> SHASM_BLOCK_OMODE_UTF8, o_strict |-> TRUE],
    [enc |-> "empty", o_over |-> SHASM_BLOCK_OMODE_U16BE, o_strict |-> FALSE] }

NoView ==
  [code |-> SHASM_OKAY, pLine |-> 0, count |-> 0,
   ptr0 |-> [null |-> TRUE, bytes |-> <<>>],
   ptr1 |-> [null |-> TRUE, bytes |-> <<>>], line |-> 1]

NoStream ==
  [data |-> <<>>, pos |-> 0, errAt |-> 0, errSticky |-> FALSE,
   err |-> FALSE, eof |-> FALSE, calls |-> 0]

\* no shasm_block_encode call has been made
NoEncode ==
  [n |-> 0, entity |-> 0, penc |-> "empty", o_over |-> SHASM_BLOCK_OMODE_NONE,
   o_strict |-> FALSE, before |-> shasm_block_alloc, status |-> 1,
   maps |-> 0, pt |-> shasm_block_tbuf_init]

BlockStart ==
  /\ pb = shasm_block_alloc
  /\ bret = 1
  /\ inErr = FALSE
  /\ touched = FALSE
  /\ first = <<>>
  /\ ncalls = 0
  /\ view = NoView
  /\ enc = NoEncode

\* what a read call leaves behind, r being what it yields for input filter
\* s; the client reads tokens for as long as the reads succeed, as test_token
\* does, and makes no more than MaxCalls calls otherwise
AfterRead(r, s, op) ==
  /\ pb # NoBlock
  /\ ncalls < MaxCalls \/ (op = "token" /\ pb.code = SHASM_OKAY)
  /\ ncalls' = ncalls + 1
  /\ pb' = r.pb
  /\ ps' = r.ps
  /\ bret' = r.status
  /\ inErr' = (pb.code # SHASM_OKAY)
  /\ touched' = (touched \/ (pb.code # SHASM_OKAY /\ r.ps # s))
  /\ first' = IF first = <<>> /\ r.pb.code # SHASM_OKAY
                THEN <<r.pb.code, r.pb.line>> ELSE first
  /\ view' = NoView
  /\ lastop' = op
  /\ UNCHANGED <<pIn, filterVars, tokenVars>>

BlockToken ==
  LET s == [ps EXCEPT !.src.calls = 0]
  IN /\ AfterRead(shasm_block_token(pb, s), s, "token")
     /\ UNCHANGED enc

\* the last call of shasm_block_encode that shasm_block_string makes: the
\* first that fails, or the call for the last entity
RECURSIVE LastEncode(_, _, _, _, _)
LastEncode(b, entities, sp, pt, n) ==
  LET r == shasm_block_encode(b, Head(entities), sp.enc, sp.o_over,
                              sp.o_strict, pt)
  IN IF r.status = 0 \/ Len(entities) = 1
       THEN [n |-> n + 1, entity |-> Head(entities), penc |-> sp.enc,
             o_over |-> sp.o_over, o_strict |-> sp.o_strict, before |-> b,
             status |-> r.status, maps |-> r.maps, pt |-> r.pt]
       ELSE LastEncode(r.pb, Tail(entities), sp, r.pt, n + 1)

\* a call of shasm_block_string; enc records its last call of
\* shasm_block_encode and the temporary buffer, released at the end
BlockString ==
  \E sp \in StringSpecs :
    LET s == [ps EXCEPT !.src.calls = 0]
        last == LastEncode(pb, TestEntities, sp, shasm_block_tbuf_init, 0)
    IN /\ AfterRead(shasm_block_string(pb, s, sp), s, "string")
       /\ enc' = [last EXCEPT !.pt = shasm_block_tbuf_reset(@)]

BlockQuery ==
  LET st == shasm_block_status(pb, view.pLine)
      p0 == shasm_block_ptr(pb, FALSE)
      p1 == shasm_block_ptr(p0.pb, TRUE)
  IN /\ pb # NoBlock
     /\ view' = [code |-> st.code, pLine |-> st.pLine,
                 count |-> shasm_block_count(pb),
                 ptr0 |-> p0.pc, ptr1 |-> p1.pc,
                 line |-> shasm_block_line(pb)]
     /\ pb' = p1.pb
     /\ lastop' = "query"
     /\ UNCHANGED <<pIn, filterVars, ps, bret, inErr, touched, first, ncalls,
                    tokenVars, enc>>

\* the end of the test program: the block reader is released
BlockFree ==
  /\ pb # NoBlock
  /\ pb' = shasm_block_free(pb)
  /\ lastop' = "free"
  /\ UNCHANGED <<pIn, filterVars, ps, bret, inErr, touched, first, ncalls,
                 view, tokenVars, enc>>

\* the input filter after it is released: the caller holds no filter
shasm_input_free(s) == shasm_input_alloc(NoStream)

\* the second release at the end of test_token: the input filter, after
\* the block reader
InputFree ==
  /\ pb = NoBlock
  /\ lastop = "free"
  /\ ps' = shasm_input_free(ps)
  /\ lastop' = "inputfree"
  /\ UNCHANGED <<pIn, filterVars, pb, bret, inErr, touched, first, ncalls,
                 view, tokenVars, enc>>

(***************************************************************************)
(* The SNBUFFER of shastina.c.  pBuf holds the count bytes written so far; *)
(* the bytes from count up to cap are zero, which snbuffer_reset,          *)
(* snbuffer_append and snbuffer_less keep true.                            *)
(***************************************************************************)
snbuffer_init(icap, maxcap) ==
  [pBuf |-> <<>>, count |-> 0, cap |-> 0, initcap |-> icap,
   maxcap |-> maxcap]

snbuffer_reset(pBuffer, full) ==
  [pBuffer EXCEPT !.count = 0, !.pBuf = <<>>,
                  !.cap = IF full THEN 0 ELSE @]

\* the new buffer and the status returned; the call aborts on a character
\* outside 1..255
snbuffer_append(pBuffer, c) ==
  IF pBuffer.count < pBuffer.maxcap - 1
    THEN LET cap1 == IF pBuffer.cap < 1 THEN pBuffer.initcap
                     ELSE pBuffer.cap
             newcap == IF cap1 * 2 > pBuffer.maxcap THEN pBuffer.maxcap
                       ELSE cap1 * 2
         IN [buf |-> [pBuffer EXCEPT
                        !.pBuf = Append(@, c),
                        !.count = @ + 1,
                        !.cap = IF pBuffer.count >= cap1 - 1
                                  THEN newcap ELSE cap1],
             status |-> 1, abort |-> c < 1 \/ c > 255]
    ELSE [buf |-> pBuffer, status |-> 0, abort |-> c < 1 \/ c > 255]

\* the C string at pBuf; the first use of the buffer allocates it
snbuffer_get(pBuffer) ==
  [buf |-> [pBuffer EXCEPT !.cap = IF @ < 1 THEN pBuffer.initcap ELSE @],
   str |-> pBuffer.pBuf]

snbuffer_count(pBuffer) == pBuffer.count

\* the value of a byte read through the char pointer pBuf: char is a signed
\* type of eight bits, so that the bytes 128..255 read as -128..-1
CharValue(b) == IF b > 127 THEN b - 256 ELSE b

snbuffer_last(pBuffer) ==
  IF pBuffer.count > 0 THEN CharValue(pBuffer.pBuf[pBuffer.count]) ELSE 0

snbuffer_less(pBuffer) ==
  IF pBuffer.count > 0
    THEN [buf |-> [pBuffer EXCEPT
                     !.pBuf = SubSeq(@, 1, pBuffer.count - 1),
                     !.count = @ - 1],
          status |-> 1]
    ELSE [buf |-> pBuffer, status |-> 0]

\* snchar_islegal without its test: every byte is taken as legal
snchar_islegal_any(c) == c >= 0

\* snchar_isatomic that takes no character as atomic
snchar_isatomic_none(c) == FALSE

\* snchar_isexclusive that knows whitespace only
snchar_isexclusive_blank(c) == c \in {ASCII_HT, ASCII_SP, ASCII_LF}

(***************************************************************************)
(* The character classes of shastina.c.                                    *)
(***************************************************************************)
snchar_islegal(c) ==
  \/ c >= ASCII_VISIBLE_MIN /\ c <= ASCII_VISIBLE_MAX
  \/ c = ASCII_SP \/ c = ASCII_HT \/ c = ASCII_LF

snchar_isatomic(c) ==
  c \in {ASCII_LPAREN, ASCII_RPAREN, ASCII_LSQR, ASCII_RSQR, ASCII_COMMA,
         ASCII_PERCENT, ASCII_SEMICOLON, ASCII_DQUOTE, ASCII_GRACCENT,
         ASCII_LCURL, ASCII_RCURL}

snchar_isinclusive(c) ==
  c \in {ASCII_DQUOTE, ASCII_GRACCENT, ASCII_LCURL}

snchar_isexclusive(c) ==
  c \in {ASCII_HT, ASCII_SP, ASCII_LF, ASCII_LPAREN, ASCII_RPAREN,
         ASCII_LSQR, ASCII_RSQR, ASCII_COMMA, ASCII_PERCENT,
         ASCII_SEMICOLON, ASCII_POUNDSIGN, ASCII_RCURL}

(***************************************************************************)
(* The string readers.  Each yields the buffer, the filter, the stream,    *)
(* the error number returned, and whether the call ended in abort().       *)
(***************************************************************************)
StrResult(pBuffer, r, err_num) ==
  [buf |-> pBuffer, fil |-> r.fil, f |-> r.f, err |-> err_num,
   abort |-> FALSE]

RECURSIVE QuotedLoop(_, _, _, _)
QuotedLoop(pBuffer, pFilter, f, esc_flag) ==
  LET Added(r, a) ==
        IF a.abort THEN [StrResult(a.buf, r, 0) EXCEPT !.abort = TRUE]
        ELSE IF a.status = 0 THEN StrResult(a.buf, r, SNERR_LONGSTR)
        ELSE QuotedLoop(a.buf, r.fil, r.f, r.ret = ASCII_BACKSLASH)
      Got(r) ==
        IF r.ret < 0
          THEN StrResult(pBuffer, r, IF r.ret = SNERR_EOF
                                       THEN SNERR_OPENSTR ELSE r.ret)
        ELSE IF ~esc_flag /\ r.ret = ASCII_DQUOTE
          THEN StrResult(pBuffer, r, 0)
        ELSE IF r.ret = 0 THEN StrResult(pBuffer, r, SNERR_NULLCHR)
        ELSE Added(r, snbuffer_append(pBuffer, r.ret))
  IN Got(snfilter_read(pFilter, f))

snstr_readQuoted(pBuffer, f, pFilter) ==
  QuotedLoop(snbuffer_reset(pBuffer, FALSE), pFilter, f, FALSE)

\* snstr_readCurlied that knows no nesting: brackets are not counted and
\* the first right bracket read with the escape flag clear ends the string
RECURSIVE CurliedLoop_flat(_, _, _, _, _)
CurliedLoop_flat(pBuffer, pFilter, f, esc_flag, nest_level) ==
  LET Added(r, a) ==
        IF a.abort THEN [StrResult(a.buf, r, 0) EXCEPT !.abort = TRUE]
        ELSE IF a.status = 0 THEN StrResult(a.buf, r, SNERR_LONGSTR)
        ELSE CurliedLoop_flat(a.buf, r.fil, r.f, r.ret = ASCII_BACKSLASH,
                              nest_level)
      Got(r) ==
        IF r.ret < 0
          THEN StrResult(pBuffer, r, IF r.ret = SNERR_EOF
                                       THEN SNERR_OPENSTR ELSE r.ret)
        ELSE IF ~esc_flag /\ r.ret = ASCII_RCURL
          THEN StrResult(pBuffer, r, 0)
        ELSE IF r.ret = 0 THEN StrResult(pBuffer, r, SNERR_NULLCHR)
        ELSE Added(r, snbuffer_append(pBuffer, r.ret))
  IN Got(snfilter_read(pFilter, f))

RECURSIVE CurliedLoop(_, _, _, _, _)
CurliedLoop(pBuffer, pFilter, f, esc_flag, nest_level) ==
  LET Added(r, a, level) ==
        IF a.abort THEN [StrResult(a.buf, r, 0) EXCEPT !.abort = TRUE]
        ELSE IF a.status = 0 THEN StrResult(a.buf, r, SNERR_LONGSTR)
        ELSE CurliedLoop(a.buf, r.fil, r.f, r.ret = ASCII_BACKSLASH, level)
      Nested(r, level) ==
        IF level < 1 THEN StrResult(pBuffer, r, 0)
        ELSE IF r.ret = 0 THEN StrResult(pBuffer, r, SNERR_NULLCHR)
        ELSE Added(r, snbuffer_append(pBuffer, r.ret), level)
      Got(r) ==
        IF r.ret < 0
          THEN StrResult(pBuffer, r, IF r.ret = SNERR_EOF
                                       THEN SNERR_OPENSTR ELSE r.ret)
        ELSE IF ~esc_flag /\ r.ret = ASCII_LCURL
          THEN IF nest_level < LONG_MAX
                 THEN Nested(r, nest_level + 1)
                 ELSE StrResult(pBuffer, r, SNERR_DEEPCURLY)
        ELSE IF ~esc_flag /\ r.ret = ASCII_RCURL
          THEN Nested(r, nest_level - 1)
        ELSE Nested(r, nest_level)
  IN Got(snfilter_read(pFilter, f))

\* snstr_readCurlied that counts the opening bracket of the token twice:
\* the nesting level starts at two
snstr_readCurlied_two(pBuffer, f, pFilter) ==
  CurliedLoop(snbuffer_reset(pBuffer, FALSE), pFilter, f, FALSE, 2)

\* snstr_readCurlied that reports a zero byte no more than any other byte
\* it cannot keep: the string is returned as it stands at the zero byte
snstr_readCurlied_zero(pBuffer, f, pFilter) ==
  LET Got(s) == [s EXCEPT !.err = IF @ = SNERR_NULLCHR THEN 0 ELSE @]
  IN Got(CurliedLoop(snbuffer_reset(pBuffer, FALSE), pFilter, f, FALSE, 1))

snstr_readCurlied(pBuffer, f, pFilter) ==
  CurliedLoop(snbuffer_reset(pBuffer, FALSE), pFilter, f, FALSE, 1)

(***************************************************************************)
(* sntk_skip: the filter and the stream after the whitespace and the       *)
(* comments, and whether the call ended in abort() because                 *)
(* snfilter_pushback returned zero.                                        *)
(***************************************************************************)
\* the loop over whitespace: the first read that returns something else
RECURSIVE SkipSpace(_, _)
SkipSpace(pFilter, f) ==
  LET Got(r) == IF r.ret = ASCII_SP \/ r.ret = ASCII_HT \/ r.ret = ASCII_LF
                  THEN SkipSpace(r.fil, r.f) ELSE r
  IN Got(snfilter_read(pFilter, f))

\* the loop over a comment: the first read that returns LF or a sentinel
RECURSIVE SkipLine(_, _)
SkipLine(pFilter, f) ==
  LET Got(r) == IF r.ret >= 0 /\ r.ret # ASCII_LF
                  THEN SkipLine(r.fil, r.f) ELSE r
  IN Got(snfilter_read(pFilter, f))

\* sntk_skip that knows no comments: whitespace only
sntk_skip_blank(f, pFilter) ==
  LET Back(r, p) == [fil |-> p.fil, f |-> r.f, abort |-> p.status = 0]
      Space(r) == Back(r, snfilter_pushback(r.fil))
  IN Space(SkipSpace(pFilter, f))

RECURSIVE sntk_skip(_, _)
sntk_skip(f, pFilter) ==
  LET Back(r, p) == [fil |-> p.fil, f |-> r.f, abort |-> p.status = 0]
      Comment(r) == IF r.ret >= 0 THEN sntk_skip(r.f, r.fil)
                    ELSE [fil |-> r.fil, f |-> r.f, abort |-> FALSE]
      Space(r) == IF r.ret # ASCII_POUNDSIGN
                    THEN Back(r, snfilter_pushback(r.fil))
                    ELSE Comment(SkipLine(r.fil, r.f))
  IN Space(SkipSpace(pFilter, f))

(***************************************************************************)
(* sntk_readToken.  TokenState is what the function has in hand between    *)
(* its steps: the buffer, the filter, the stream, err_num, the character   *)
(* c read last, the term flag, and whether abort() was called.             *)
(***************************************************************************)
TokenState(pBuffer, pFilter, f, err_num, c, term, abort) ==
  [buf |-> pBuffer, fil |-> pFilter, f |-> f, err |-> err_num, c |-> c,
   term |-> term, abort |-> abort]

\* read a character, check that it is legal and add it to the buffer
ReadLegal(t) ==
  LET Added(r, a) ==
        TokenState(a.buf, r.fil, r.f,
                   IF a.status = 0 THEN SNERR_LONGTOKEN ELSE 0,
                   r.ret, FALSE, a.abort)
      Got(r) ==
        IF r.ret < 0
          THEN TokenState(t.buf, r.fil, r.f, r.ret, r.ret, FALSE, FALSE)
        ELSE IF ~snchar_islegal(r.ret)
          THEN TokenState(t.buf, r.fil, r.f, SNERR_BADCHAR, r.ret, FALSE,
                          FALSE)
        ELSE Added(r, snbuffer_append(t.buf, r.ret))
  IN Got(snfilter_read(t.fil, t.f))

\* ReadBar that gives the semicolon after the bar no special meaning: the
\* second character is pushed back whatever it is
ReadBar_NoFinal(t) ==
  LET Back(r, p) ==
        TokenState(t.buf, p.fil, r.f, IF r.ret < 0 THEN r.ret ELSE 0,
                   t.c, FALSE, p.status = 0)
      Got(r) == Back(r, snfilter_pushback(r.fil))
  IN Got(snfilter_read(t.fil, t.f))

\* the first character is a vertical bar: look at the second one
ReadBar(t) ==
  LET Added(r, a) ==
        TokenState(a.buf, r.fil, r.f,
                   IF a.status = 0 THEN SNERR_LONGTOKEN ELSE 0,
                   t.c, TRUE, a.abort)
      Back(r, p) ==
        TokenState(t.buf, p.fil, r.f, IF r.ret < 0 THEN r.ret ELSE 0,
                   t.c, FALSE, p.status = 0)
      Got(r) ==
        IF r.ret = ASCII_SEMICOLON
          THEN Added(r, snbuffer_append(t.buf, r.ret))
          ELSE Back(r, snfilter_pushback(r.fil))
  IN Got(snfilter_read(t.fil, t.f))

\* sntk_readToken's step after the final token without its check: whatever
\* follows the token is left unread
ReadTrailer_None(t) == t

\* after the terminal token: nothing but whitespace and comments may follow
ReadTrailer(t) ==
  LET Got(r) ==
        TokenState(t.buf, r.fil, r.f,
                   IF r.ret = SNERR_EOF THEN 0
                   ELSE IF r.ret >= 0 THEN SNERR_TRAILER ELSE r.ret,
                   t.c, TRUE, FALSE)
      Skipped(k) ==
        IF k.abort
          THEN TokenState(t.buf, k.fil, k.f, 0, t.c, TRUE, TRUE)
          ELSE Got(snfilter_read(k.fil, k.f))
  IN Skipped(sntk_skip(t.f, t.fil))

\* the loop over the characters after the first
RECURSIVE ReadMore(_)
ReadMore(t) ==
  LET Added(r, a) ==
        IF a.abort \/ a.status = 0
          THEN TokenState(a.buf, r.fil, r.f,
                          IF a.status = 0 THEN SNERR_LONGTOKEN ELSE 0,
                          r.ret, FALSE, a.abort)
        ELSE IF snchar_isinclusive(r.ret)
          THEN TokenState(a.buf, r.fil, r.f, 0, r.ret, FALSE, FALSE)
        ELSE ReadMore(TokenState(a.buf, r.fil, r.f, 0, r.ret, FALSE, FALSE))
      Back(r, p) ==
        TokenState(t.buf, p.fil, r.f, 0, r.ret, FALSE, p.status = 0)
      Got(r) ==
        IF r.ret < 0
          THEN TokenState(t.buf, r.fil, r.f, r.ret, r.ret, FALSE, FALSE)
        ELSE IF ~snchar_islegal(r.ret)
          THEN TokenState(t.buf, r.fil, r.f, SNERR_BADCHAR, r.ret, FALSE,
                          FALSE)
        ELSE IF snchar_isexclusive(r.ret)
          THEN Back(r, snfilter_pushback(r.fil))
        ELSE Added(r, snbuffer_append(t.buf, r.ret))
  IN Got(snfilter_read(t.fil, t.f))

sntk_readToken(pBuffer, f, pFilter) ==
  LET Rest(t) ==
        IF t.abort \/ t.err # 0 \/ t.term \/ snchar_isatomic(t.c) THEN t
        ELSE ReadMore(t)
      Term(t) ==
        IF ~t.abort /\ t.err = 0 /\ t.term THEN Rest(ReadTrailer(t))
        ELSE Rest(t)
      Bar(t) ==
        IF ~t.abort /\ t.err = 0 /\ t.c = ASCII_BAR THEN Term(ReadBar(t))
        ELSE Term(t)
      Skipped(k) ==
        IF k.abort
          THEN TokenState(snbuffer_reset(pBuffer, FALSE), k.fil, k.f, 0, 0,
                          FALSE, TRUE)
          ELSE Bar(ReadLegal(TokenState(snbuffer_reset(pBuffer, FALSE),
                                        k.fil, k.f, 0, 0, FALSE, FALSE)))
  IN Skipped(sntk_skip(f, pFilter))

(***************************************************************************)
(* sntoken_read.  The result holds the SNTOKEN structure with its two      *)
(* buffers, the filter and the stream, whether the call ended in abort(),  *)
(* and what sntk_readToken had returned to it.                             *)
(***************************************************************************)
TokenResult(pToken, t, s, abort) ==
  [tk |-> pToken, fil |-> s.fil, f |-> s.f, abort |-> abort, tok |-> t]

\* the end of sntoken_read without the reset: an error is stored in the
\* status and the buffers stay as they are
TokenDone_keep(pToken, t, s, err_num) ==
  TokenResult([pToken EXCEPT !.status = IF err_num # 0 THEN err_num ELSE @],
              t, s, FALSE)

\* the end of sntoken_read: an error clears the buffers and the fields
TokenDone(pToken, t, s, err_num) ==
  TokenResult(IF err_num # 0
                THEN [pKey |-> snbuffer_reset(pToken.pKey, FALSE),
                      pValue |-> snbuffer_reset(pToken.pValue, FALSE),
                      str_type |-> 0, status |-> err_num]
                ELSE pToken,
              t, s, FALSE)

\* TokenKind that does not know the embedded data: a token that ends in a
\* grave accent is a simple token
TokenKind_plain(pKey) ==
  LET c == snbuffer_last(pKey) IN
  IF c = ASCII_DQUOTE
    THEN [status |-> SNTOKEN_STRING, str_type |-> SNSTRING_QUOTED]
  ELSE IF c = ASCII_LCURL
    THEN [status |-> SNTOKEN_STRING, str_type |-> SNSTRING_CURLY]
  ELSE IF snbuffer_get(pKey).str = <<ASCII_BAR, ASCII_SEMICOLON>>
    THEN [status |-> SNTOKEN_FINAL, str_type |-> 0]
  ELSE [status |-> SNTOKEN_SIMPLE, str_type |-> 0]

\* the kind of a token by its last character
TokenKind(pKey) ==
  LET c == snbuffer_last(pKey) IN
  IF c = ASCII_DQUOTE
    THEN [status |-> SNTOKEN_STRING, str_type |-> SNSTRING_QUOTED]
  ELSE IF c = ASCII_LCURL
    THEN [status |-> SNTOKEN_STRING, str_type |-> SNSTRING_CURLY]
  ELSE IF c = ASCII_GRACCENT
    THEN [status |-> SNTOKEN_EMBED, str_type |-> 0]
  ELSE IF snbuffer_get(pKey).str = <<ASCII_BAR, ASCII_SEMICOLON>>
    THEN [status |-> SNTOKEN_FINAL, str_type |-> 0]
  ELSE [status |-> SNTOKEN_SIMPLE, str_type |-> 0]

sntoken_read(pToken, f, pFil) ==
  LET Cleared == [pToken EXCEPT !.pKey = snbuffer_reset(@, FALSE),
                                !.pValue = snbuffer_reset(@, FALSE),
                                !.status = 0, !.str_type = 0]
      Str(t, k, less, s) ==
        IF s.abort
          THEN TokenResult(Cleared, t, s, TRUE)
          ELSE TokenDone([pKey |-> less.buf, pValue |-> s.buf,
                          str_type |-> k.str_type, status |-> k.status],
                         t, s, s.err)
      Less(t, k, less) ==
        IF less.status = 0 THEN TokenResult(Cleared, t, t, TRUE)
        ELSE IF k.status = SNTOKEN_EMBED
          THEN TokenDone([pKey |-> less.buf, pValue |-> Cleared.pValue,
                          str_type |-> 0, status |-> k.status], t, t, 0)
        ELSE IF k.str_type = SNSTRING_QUOTED
          THEN Str(t, k, less, snstr_readQuoted(Cleared.pValue, t.f, t.fil))
        ELSE Str(t, k, less, snstr_readCurlied(Cleared.pValue, t.f, t.fil))
      Kind(t, k) ==
        IF k.status \in {SNTOKEN_STRING, SNTOKEN_EMBED}
          THEN Less(t, k, snbuffer_less(t.buf))
          ELSE TokenDone([pKey |-> snbuffer_get(t.buf).buf,
                          pValue |-> Cleared.pValue,
                          str_type |-> 0, status |-> k.status], t, t, 0)
      Got(t) ==
        IF t.abort THEN TokenResult(Cleared, t, t, TRUE)
        ELSE IF t.err # 0
          THEN TokenDone([Cleared EXCEPT !.pKey = t.buf], t, t, t.err)
        ELSE Kind(t, TokenKind(t.buf))
  IN Got(sntk_readToken(Cleared.pKey, f, pFil))

(***************************************************************************)
(* The program of shastina.c: main reads tokens with sntoken_read until a  *)
(* read fails or the final token is read.  The capacities main gives to    *)
(* snbuffer_init are scaled down (the code has 4 and 1024 for the key      *)
(* buffer, 32 and 65535 for the value buffer).                             *)
(***************************************************************************)
NoRead ==
  [n |-> 0, ended |-> FALSE, fil |-> snfilter_reset, f |-> NoStream,
   tok |-> TokenState(snbuffer_init(KeyInitCap, KeyMaxCap), snfilter_reset,
                      NoStream, 0, 0, FALSE, FALSE)]

TokenStart ==
  /\ tk = [pKey |-> snbuffer_init(KeyInitCap, KeyMaxCap),
           pValue |-> snbuffer_init(ValInitCap, ValMaxCap),
           status |-> 0, str_type |-> 0]
  /\ rd = NoRead
  /\ aborted = FALSE

\* the body of main's loop: the token is printed, which takes the strings
\* of the buffers with snbuffer_get
MainBody(pToken) ==
  IF pToken.status = SNTOKEN_STRING
    THEN [pToken EXCEPT !.pKey = snbuffer_get(@).buf,
                        !.pValue = snbuffer_get(@).buf]
  ELSE IF pToken.status \in {SNTOKEN_SIMPLE, SNTOKEN_EMBED}
    THEN [pToken EXCEPT !.pKey = snbuffer_get(@).buf]
  ELSE pToken

\* one pass of main's loop: sntoken_read and, when it has read a token, the
\* body of the loop
TokenRead ==
  LET Done(r) ==
        /\ tk' = IF r.abort THEN r.tk ELSE MainBody(r.tk)
        /\ fil' = r.fil
        /\ pIn' = r.f
        /\ aborted' = r.abort
        /\ rd' = [n |-> rd.n + 1, ended |-> FALSE, fil |-> fil, f |-> pIn,
                  tok |-> r.tok]
        /\ UNCHANGED <<out, ret, latched, srcAfter, bomFirst, started,
                       pbret, lastop, blockVars>>
  IN /\ ~aborted
     /\ ~rd.ended
     /\ rd.n = 0 \/ (tk.status >= 0 /\ tk.status # SNTOKEN_FINAL)
     /\ Done(sntoken_read(tk, [pIn EXCEPT !.calls = 0], fil))

\* main after its loop, which it leaves at an error and after the final
\* token: both buffers are released
MainEnd ==
  /\ rd.n > 0
  /\ ~aborted
  /\ ~rd.ended
  /\ tk.status < 0 \/ tk.status = SNTOKEN_FINAL
  /\ tk' = [tk EXCEPT !.pKey = snbuffer_reset(@, TRUE),
                      !.pValue = snbuffer_reset(@, TRUE)]
  /\ rd' = [rd EXCEPT !.ended = TRUE]
  /\ UNCHANGED <<pIn, filterVars, lastop, blockVars, aborted>>

(***************************************************************************)
(* The two specifications.  Spec is a program that reads its input through *)
(* the input filter of shastina.c, reading and pushing back in any order;  *)
(* SpecBlock is the block reader test program.                             *)
(***************************************************************************)
FilterStreams ==
  { f \in Streams(ChunkFiles(MaxChunks)) : f.errAt = 0 => ~f.errSticky }

Init ==
  /\ pIn \in FilterStreams
  /\ FilterStart
  /\ lastop = "init"
  /\ ps = shasm_input_alloc(NoStream)
  /\ BlockStart
  /\ TokenStart

Next == FilterRead \/ FilterPushback

Spec == Init /\ [][Next]_vars

InitBlock ==
  /\ pIn = NoStream
  /\ FilterStart
  /\ lastop = "init"
  /\ ps \in { shasm_input_alloc(f) : f \in BlockStreams }
  /\ BlockStart
  /\ TokenStart

NextBlock == BlockToken \/ BlockString \/ BlockQuery \/ BlockFree \/ InputFree

SpecBlock == InitBlock /\ [][NextBlock]_vars

(***************************************************************************)
(* A third specification, for the line counter at its upper end: the same  *)
(* client of the filter, which starts either with a fresh filter or with   *)
(* a filter that has read LONG_MAX - 2 or more line breaks before, and     *)
(* reads on from a short rest of the file without read errors.             *)
(***************************************************************************)
LineFiles ==
  { d \in ChunkFiles(MaxChunks) :
      \A i \in 1..Len(d) : d[i] \in {ASCII_CR, ASCII_LF, 97} }

LineFilters ==
  { snfilter_reset } \cup
  { [line_count |-> n, c |-> x, pushback |-> FALSE, bom_present |-> FALSE]
      : n \in {LONG_MAX - 1, LONG_MAX}, x \in {ASCII_LF, 97} }

InitLines ==
  /\ pIn \in { FreshStream(d) : d \in LineFiles }
  /\ fil \in LineFilters
  /\ out = <<>>
  /\ ret = fil.c
  /\ latched = 0
  /\ srcAfter = FALSE
  /\ bomFirst = FALSE
  /\ started = (fil.line_count > 0)
  /\ pbret = 1
  /\ lastop = "init"
  /\ ps = shasm_input_alloc(NoStream)
  /\ BlockStart
  /\ TokenStart

SpecLines == InitLines /\ [][Next]_vars

(***************************************************************************)
(* A fourth specification, for the token readers: the program of           *)
(* shastina.c and the token loop of the block reader test program, each    *)
(* reading the same input file from its start at its own pace.  The files  *)
(* have no read errors, no CR and no byte order mark, so that the          *)
(* characters the filters deliver are the bytes of the file; they are all  *)
(* files of up to MaxFile bytes over TokenBytes and all files of up to two *)
(* bytes over every byte either reader treats in a way of its own.         *)
(***************************************************************************)
TokenBytes ==
  {97, ASCII_SP, ASCII_LF, ASCII_SEMICOLON, ASCII_BAR, ASCII_DQUOTE,
   SHASM_ASCII_SQUOTE, ASCII_GRACCENT, ASCII_RCURL, ASCII_POUNDSIGN,
   SHASM_ASCII_AMPERSAND, 127}

OtherBytes ==
  {0, ASCII_HT, ASCII_LPAREN, ASCII_RPAREN, ASCII_LSQR, ASCII_RSQR,
   ASCII_COMMA, ASCII_PERCENT, ASCII_LCURL, ASCII_BACKSLASH}

RECURSIVE ByteFiles(_, _)
ByteFiles(bytes, n) ==
  IF n = 0 THEN { <<>> }
  ELSE LET prev == ByteFiles(bytes, n - 1)
       IN prev \cup { Append(d, x) : d \in prev, x \in bytes }

TokenFiles ==
  ByteFiles(TokenBytes, MaxFile) \cup ByteFiles(TokenBytes \cup OtherBytes, 2)

InitToken ==
  /\ \E d \in TokenFiles :
       /\ pIn = FreshStream(d)
       /\ ps = shasm_input_alloc(FreshStream(d))
  /\ FilterStart
  /\ lastop = "init"
  /\ BlockStart
  /\ TokenStart

NextToken == TokenRead \/ MainEnd \/ BlockToken \/ BlockFree \/ InputFree

SpecToken == InitToken /\ [][NextToken]_vars

(***************************************************************************)
(* A fifth specification, for the string readers and the check after the   *)
(* final token: the same two programs, reading files that start with a     *)
(* double quote, an opening curly bracket or the final token.  The value   *)
(* buffer of main is scaled to StrInitCap and StrMaxCap.  A read error     *)
(* may happen at any one byte of the shorter files.                        *)
(***************************************************************************)
QuotedBytes == {97, ASCII_BACKSLASH, ASCII_DQUOTE, 0}

CurlyBytes == {97, ASCII_BACKSLASH, ASCII_LCURL, ASCII_RCURL, 0}

NestBytes == {97, ASCII_LCURL, ASCII_RCURL}

TrailerBytes == {97, ASCII_SP, ASCII_LF, ASCII_POUNDSIGN}

\* the files that start with the bytes of head and go on with a file of
\* the set bodies
Headed(head, bodies) == { head \o b : b \in bodies }

ShortFiles ==
  Headed(<<ASCII_DQUOTE>>, ByteFiles(QuotedBytes, MaxBody))
    \cup Headed(<<ASCII_LCURL>>, ByteFiles(CurlyBytes, MaxBody))
    \cup Headed(<<ASCII_BAR, ASCII_SEMICOLON>>,
                ByteFiles(TrailerBytes, MaxBody))

NestFiles == Headed(<<ASCII_LCURL>>, ByteFiles(NestBytes, MaxCurly))

StringStreams ==
  { f \in Streams(ShortFiles) : f.errAt = 0 => ~f.errSticky }
    \cup { FreshStream(d) : d \in NestFiles }

StringStart ==
  /\ tk = [pKey |-> snbuffer_init(KeyInitCap, KeyMaxCap),
           pValue |-> snbuffer_init(StrInitCap, StrMaxCap),
           status |-> 0, str_type |-> 0]
  /\ rd = NoRead
  /\ aborted = FALSE

InitString ==
  /\ \E f \in StringStreams :
       /\ pIn = f
       /\ ps = shasm_input_alloc(f)
  /\ FilterStart
  /\ lastop = "init"
  /\ BlockStart
  /\ StringStart

NextString == TokenRead \/ MainEnd \/ BlockToken \/ BlockFree \/ InputFree

SpecString == InitString /\ [][NextString]_vars

(***************************************************************************)
(* The readers with every read that can fail: main of shastina.c calling   *)
(* sntoken_read, and a caller of the block reader on the same file that    *)
(* calls shasm_block_token and shasm_block_string.  The files are those on *)
(* which a read fails at each point: in the first byte, after bytes of a   *)
(* token, in the body of a string after its prefix, with a buffer at its   *)
(* limit, after a string that was read, and after the final token; every   *)
(* file is also read with a read error at each of its bytes.               *)
(***************************************************************************)
FailFiles ==
  { <<0>>,
    <<97, 0>>,
    <<ASCII_DQUOTE, 97>>,
    <<ASCII_DQUOTE, 97, 0>>,
    <<97, ASCII_DQUOTE, 97>>,
    <<ASCII_LCURL, 97>>,
    <<ASCII_LCURL, ASCII_LCURL, 97, ASCII_RCURL>>,
    <<ASCII_DQUOTE, 97, ASCII_DQUOTE>>,
    <<ASCII_DQUOTE, 97, ASCII_DQUOTE, 0>>,
    <<ASCII_BAR, ASCII_SEMICOLON, 97>>,
    Letters(KeyMaxCap + 1),
    <<ASCII_DQUOTE>> \o Letters(StrMaxCap + 1) \o <<ASCII_DQUOTE>> }

InitFail ==
  /\ \E f \in { g \in Streams(FailFiles) : g.errAt = 0 => ~g.errSticky } :
       /\ pIn = f
       /\ ps = shasm_input_alloc(f)
  /\ FilterStart
  /\ lastop = "init"
  /\ BlockStart
  /\ StringStart

NextFail ==
  TokenRead \/ MainEnd \/ BlockToken \/ BlockString \/ BlockFree \/ InputFree

SpecFail == InitFail /\ [][NextFail]_vars

(***************************************************************************)
(* The encoder specification: shasm_block_string from its first call of    *)
(* shasm_block_encode to its return.  The calls of one behaviour share the *)
(* block reader and the temporary buffer; each call after the first takes  *)
(* the next entity of TestEntities with the encoding table, override mode  *)
(* and strict flag of the first, and is made only while every call before  *)
(* it has succeeded.  The first call also takes the ends of the ranges the *)
(* encoders tell apart.  The function ends after a call that failed or     *)
(* after the last entity.  The block reader starts empty, or holding a     *)
(* letter, or two bytes short of its greatest length, or in error state;   *)
(* the temporary buffer starts unallocated, or as a call has widened it,   *)
(* or as a call for 'H' has left it.                                       *)
(***************************************************************************)
EncodeEntities ==
  {0, 127, 128, 2047, 2048, 55295, 55296, 57343, 57344, 65535, 65536,
   66559, 66560, 1114111, 1114112}
    \cup {TestEntities[i] : i \in DOMAIN TestEntities}

EncodeStarts(s) ==
  { shasm_block_alloc,
    AddBytes(shasm_block_alloc, Letters(1)).pb,
    AddBytes(shasm_block_alloc, Letters(SHASM_BLOCK_MAXBUFFER - 2)).pb,
    shasm_block_seterr(shasm_block_alloc, s, SHASM_ERR_HUGEBLOCK) }

EncodeTemps ==
  { shasm_block_tbuf_init,
    shasm_block_tbuf_widen(shasm_block_tbuf_init, 1).pt,
    enc_map("test", 72, shasm_block_tbuf_widen(shasm_block_tbuf_init, 1).pt).pt }

InitEncode ==
  /\ pIn = NoStream
  /\ FilterStart
  /\ lastop = "init"
  /\ ps = shasm_input_alloc(NoStream)
  /\ pb \in EncodeStarts(ps)
  /\ bret = 1
  /\ inErr = FALSE
  /\ touched = FALSE
  /\ first = <<>>
  /\ ncalls = 0
  /\ view = NoView
  /\ enc \in { [NoEncode EXCEPT !.pt = t] : t \in EncodeTemps }
  /\ TokenStart

\* one call of shasm_block_encode by shasm_block_string: the first of a
\* behaviour, or the next of the sequence after a call that succeeded
Encode ==
  \E entity \in EncodeEntities, penc \in EncTables, o_over \in OverModes,
     o_strict \in BOOLEAN :
    LET r == shasm_block_encode(pb, entity, penc, o_over, o_strict, enc.pt)
    IN /\ lastop \in {"init", "encode"}
       /\ enc.status = 1
       /\ enc.n < Len(TestEntities)
       /\ enc.n > 0 =>
            /\ enc.entity = TestEntities[enc.n]
            /\ entity = TestEntities[enc.n + 1]
            /\ penc = enc.penc
            /\ o_over = enc.o_over
            /\ o_strict = enc.o_strict
       /\ enc' = [n |-> enc.n + 1, entity |-> entity, penc |-> penc,
                  o_over |-> o_over, o_strict |-> o_strict, before |-> pb,
                  status |-> r.status, maps |-> r.maps, pt |-> r.pt]
       /\ pb' = r.pb
       /\ lastop' = "encode"
       /\ UNCHANGED <<pIn, filterVars, ps, bret, inErr, touched, first,
                      ncalls, view, tokenVars>>

\* the end of shasm_block_string: after a call that failed the block
\* reader is set to the error state of a huge block; the temporary buffer
\* is released and the status returned
StringEnd ==
  /\ lastop = "encode"
  /\ enc.status = 0 \/ enc.n = Len(TestEntities)
  /\ pb' = IF enc.status = 0
             THEN shasm_block_seterr(pb, ps, SHASM_ERR_HUGEBLOCK)
           ELSE pb
  /\ enc' = [enc EXCEPT !.pt = shasm_block_tbuf_reset(@)]
  /\ bret' = enc.status
  /\ lastop' = "string"
  /\ UNCHANGED <<pIn, filterVars, ps, inErr, touched, first, ncalls, view,
                 tokenVars>>

NextEncode == Encode \/ StringEnd

SpecEncode == InitEncode /\ [][NextEncode]_vars

(***************************************************************************)
(* Properties of the block reader (SpecBlock).                             *)
(***************************************************************************)

\* a call of shasm_block_encode has returned and shasm_block_string has
\* not: enc records that call and pb is as the call left it
EncodeCalled == enc.n > 0 /\ lastop = "encode"

\* the step is a call of shasm_block_encode
EncodeStep == enc'.n = enc.n + 1 /\ lastop' = "encode"

\* the number of read calls made on the block reader that is in use: the
\* properties speak of the block reader until it is released
BlockCalls == IF pb = NoBlock THEN 0 ELSE ncalls

\* main of shastina.c is in its loop and has called sntoken_read: the
\* properties speak of the token until main releases the buffers
InLoop == rd.n > 0 /\ ~rd.ended

\* C1: once the block reader is in error state it stays there: every read
\* call made in error state returns failure, and shasm_block_status keeps
\* reporting the code and the line of the first error.
ErrorStateLatched ==
  (first # <<>> /\ pb # NoBlock) =>
    /\ pb.code # SHASM_OKAY
    /\ shasm_block_status(pb, 0) = [code |-> first[1], pLine |-> first[2]]
    /\ (inErr => bret = 0)

\* a string read was called on a block reader that had met end of input
StringCalledAfterEof ==
  inErr /\ lastop = "string" /\ first[1] = SHASM_ERR_EOF

\* C2: a read call made in error state leaves the input filter as it was:
\* no read, no pushback, no call of the raw input callback.
FilterUntouchedInError == ~touched

\* a token read was called in error state with input left to read
TokenCalledInErrorBeforeEof ==
  /\ inErr
  /\ lastop = "token"
  /\ ps.c >= 0
  /\ ps.src.pos < Len(ps.src.data)

\* C3: in error state shasm_block_count returns 0, shasm_block_ptr returns
\* a buffer whose first byte is zero for either value of the flag, and
\* shasm_block_line returns LONG_MAX.
ErrorStateViews ==
  (lastop = "query" /\ pb.code # SHASM_OKAY) =>
    /\ view.count = 0
    /\ ~view.ptr0.null /\ view.ptr0.bytes[1] = 0
    /\ ~view.ptr1.null /\ view.ptr1.bytes[1] = 0
    /\ view.line = LONG_MAX

\* the queries were made after a token overflowed the buffer
QueriedAfterOverflow ==
  /\ lastop = "query"
  /\ view.code = SHASM_ERR_HUGEBLOCK
  /\ first[2] < LONG_MAX

\* C4: the buffer always keeps its terminating zero: buf_len is at most
\* MAXBUFFER - 1 and below buf_cap, buf_cap is at most MAXBUFFER, and the
\* byte at index buf_len is zero.
BufferInvariant ==
  /\ pb.buf_len <= SHASM_BLOCK_MAXBUFFER - 1
  /\ pb.buf_len < pb.buf_cap
  /\ pb.buf_cap <= SHASM_BLOCK_MAXBUFFER
  /\ pb.pBuf[pb.buf_len + 1] = 0

\* C5: the first token of a file that is n letters and a space is read
\* successfully if n is MAXBUFFER - 1, and fails with SHASM_ERR_HUGEBLOCK
\* if n is MAXBUFFER.
TokenLengthLimit ==
  \A n \in {SHASM_BLOCK_MAXBUFFER - 1, SHASM_BLOCK_MAXBUFFER} :
    ( /\ lastop = "token"
      /\ BlockCalls = 1
      /\ ps.src.errAt = 0
      /\ ps.src.data = Letters(n) \o <<SHASM_ASCII_SP>> )
    => IF n = SHASM_BLOCK_MAXBUFFER - 1
         THEN /\ bret = 1
              /\ shasm_block_count(pb) = n
              /\ SubSeq(pb.pBuf, 1, n) = Letters(n)
         ELSE /\ bret = 0
              /\ pb.code = SHASM_ERR_HUGEBLOCK

(***************************************************************************)
(* Properties of the input filter (Spec).                                  *)
(***************************************************************************)

\* the file begins with a complete byte order mark
HasBOM(d) ==
  /\ Len(d) >= 3
  /\ d[1] = SNFILTER_BOM_1 /\ d[2] = SNFILTER_BOM_2 /\ d[3] = SNFILTER_BOM_3

\* the file begins with the first byte of a byte order mark, but not with
\* a complete one
BrokenBOM(d) == Len(d) >= 1 /\ d[1] = SNFILTER_BOM_1 /\ ~HasBOM(d)

\* the file without its byte order mark
Payload(d) == IF HasBOM(d) THEN SubSeq(d, 4, Len(d)) ELSE d

IsBreak(x) == x = ASCII_CR \/ x = ASCII_LF

\* a byte sequence with each bare CR, bare LF, CR LF and LF CR replaced by
\* one LF, pairs taken greedily from the left
RECURSIVE Norm(_)
Norm(d) ==
  IF d = <<>> THEN <<>>
  ELSE IF ~IsBreak(d[1]) THEN <<d[1]>> \o Norm(Tail(d))
  ELSE IF Len(d) >= 2 /\ IsBreak(d[2]) /\ d[2] # d[1]
    THEN <<ASCII_LF>> \o Norm(SubSeq(d, 3, Len(d)))
  ELSE <<ASCII_LF>> \o Norm(Tail(d))

IsPrefix(a, b) == Len(a) <= Len(b) /\ a = SubSeq(b, 1, Len(a))

\* C6: once snfilter_read has returned SNERR_EOF or SNERR_IOERR, every
\* later snfilter_read returns that same value, whatever reads and
\* pushbacks come between, also when it was the first read that returned it.
SentinelSticky == latched # 0 => ret = latched

\* C7: once getc has reported end of file or an error, the filter does not
\* call getc again.
SourceLeftAlone == ~srcAfter

\* C8: if the file begins with EF not followed by BB BF, the first read
\* returns SNERR_BADSIG and so does every later read, and no byte of the
\* file is delivered.
BadSignatureLatched ==
  (pIn.errAt = 0 /\ BrokenBOM(pIn.data) /\ started) =>
    (ret = SNERR_BADSIG /\ out = <<>>)

\* a byte as the filter delivers it when it stands alone
Deliv(x) == IF x = ASCII_CR THEN ASCII_LF ELSE x

\* C9: after the first read the BOM flag is set exactly if the file began
\* with EF BB BF; then the first character delivered is the byte after
\* these three; a first byte other than EF is the first character delivered
\* (a CR as the LF it stands for); and the flag keeps the value it had
\* after the first read.
BomFlagDecided ==
  (pIn.errAt = 0 /\ started) =>
    /\ snfilter_bomflag(fil) = HasBOM(pIn.data)
    /\ snfilter_bomflag(fil) = bomFirst
    /\ (out # <<>> /\ ~BrokenBOM(pIn.data)) =>
         out[1] = Deliv(Payload(pIn.data)[1])

\* C10, as corrected: the filter never delivers a CR; and of a file read
\* without read error that does not begin with a broken byte order mark it
\* delivers the bytes after the byte order mark (if there is one), with one
\* LF for each bare CR, bare LF, CR LF and LF CR and every other byte
\* unchanged and in order: a prefix of them while reading, and all of them
\* once it has returned SNERR_EOF.
LineBreaksNormalized ==
  /\ \A i \in 1..Len(out) : out[i] # ASCII_CR
  /\ (pIn.errAt = 0 /\ ~BrokenBOM(pIn.data)) =>
       /\ IsPrefix(out, Norm(Payload(pIn.data)))
       /\ ret = SNERR_EOF => out = Norm(Payload(pIn.data))

\* the file LF CR CR was read to its end: a pair and a bare CR
PairAndBareRead ==
  /\ pIn.errAt = 0
  /\ pIn.data = <<ASCII_LF, ASCII_CR, ASCII_CR>>
  /\ ret = SNERR_EOF
  /\ out = <<ASCII_LF, ASCII_LF>>

\* C10, as claimed: the same of every file, counting the bytes of a byte
\* order mark among the other bytes that are delivered unchanged.
LineBreaksNormalizedAllBytes ==
  /\ \A i \in 1..Len(out) : out[i] # ASCII_CR
  /\ (pIn.errAt = 0 /\ ret = SNERR_EOF) => out = Norm(pIn.data)

\* the characters snfilter_read delivers from stream f, up to the first
\* negative value it returns
RECURSIVE ReadAll(_, _, _)
ReadAll(pFilter, f, acc) ==
  LET Got(r) ==
        IF r.ret < 0 THEN acc
        ELSE ReadAll(r.fil, r.f, Append(acc, r.ret))
  IN Got(snfilter_read(pFilter, f))

\* what a fresh filter delivers of a file with the bytes d
Refiltered(d) == ReadAll(snfilter_reset, FreshStream(d), <<>>)

\* C11, as corrected: unless they begin with the byte EF, the characters
\* the filter has delivered are delivered again, all of them and unchanged,
\* by a fresh filter that reads them as its input.
FilterIdempotent ==
  (out = <<>> \/ out[1] # SNFILTER_BOM_1) => Refiltered(out) = out

\* the file CR LF a was read to its end
PairedFileRefiltered ==
  /\ pIn.errAt = 0
  /\ pIn.data = <<ASCII_CR, ASCII_LF, 97>>
  /\ ret = SNERR_EOF
  /\ out = <<ASCII_LF, 97>>

\* C11, as claimed: what the filter delivers of any file read to its end
\* is delivered again by a fresh filter that reads it as its input.
FilterIdempotentAllInputs ==
  (pIn.errAt = 0 /\ ret = SNERR_EOF) => Refiltered(out) = out

\* the number of LF characters among the first n characters of s
RECURSIVE LineFeeds(_, _)
LineFeeds(s, n) ==
  IF n = 0 THEN 0
  ELSE LineFeeds(s, n - 1) + (IF s[n] = ASCII_LF THEN 1 ELSE 0)

\* C12: the line number the filter has stored for the character it
\* delivered last is 1 plus the number of LF characters delivered before
\* that character, so that an LF has the number of the line it ends and
\* the character after it that number plus one, also after an LF that is
\* the first character of the file.
LineChangesAfterLineFeed ==
  out # <<>> => fil.line_count = 1 + LineFeeds(out, Len(out) - 1)

(***************************************************************************)
(* Properties of the line counter (SpecLines).                             *)
(***************************************************************************)

\* C13: the line counter of the filter starts at 0, stays 0 until a read
\* delivers a character and is 1 after that read; no read and no pushback
\* makes it smaller; and once it is LONG_MAX it stays LONG_MAX.
LineCounterMonotone ==
  [][ /\ snfilter_reset.line_count = 0
      /\ fil'.line_count >= fil.line_count
      /\ fil.line_count = LONG_MAX => fil'.line_count = LONG_MAX
      /\ fil.line_count = 0 =>
           fil'.line_count = IF lastop' = "read" /\ ret' >= 0 THEN 1 ELSE 0
    ]_vars

\* two line feeds were read one after the other, and the counter is at
\* LONG_MAX
LineCounterSaturated ==
  /\ fil.line_count = LONG_MAX
  /\ lastop = "read"
  /\ Len(out) >= 2
  /\ out[Len(out)] = ASCII_LF
  /\ out[Len(out) - 1] = ASCII_LF

\* C14: a read made while the pushback flag is set returns the character
\* the previous read returned, makes no call on the source and leaves its
\* position alone, leaves the line counter unchanged and clears the flag;
\* a read made with the flag clear after a character was delivered calls
\* the source at least once.
PushbackRedelivers ==
  [][ lastop' = "read" =>
        /\ fil.pushback =>
             /\ ret' = ret
             /\ ret' = fil.c
             /\ ret' >= 0
             /\ pIn'.calls = 0
             /\ pIn'.pos = pIn.pos
             /\ out' = out
             /\ fil'.line_count = fil.line_count
             /\ ~fil'.pushback
        /\ (~fil.pushback /\ fil.line_count > 0 /\ fil.c >= 0) =>
             pIn'.calls >= 1
    ]_vars

\* a read has just returned a character without calling the source, and
\* the flag is clear again
PushedBackCharRead ==
  /\ lastop = "read"
  /\ ret >= 0
  /\ pIn.calls = 0
  /\ pIn.pos > 0
  /\ ~fil.pushback
  /\ pbret = 1

\* C15: a call of snfilter_pushback changes nothing in the filter
\* structure when the last read returned EOF, an I/O error or a bad
\* signature, when the pushback flag is already set, and when no
\* character has been read yet; and whenever the flag is set the line
\* counter is above zero and the stored character is a byte 0..255, the
\* one character held.
PushbackRejected ==
  /\ [](fil.pushback => fil.line_count > 0 /\ fil.c \in 0..255)
  /\ [][ ( /\ lastop' = "pushback"
           /\ \/ fil.c < 0
              \/ fil.pushback
              \/ fil.line_count = 0 )
         => fil' = fil
       ]_vars

\* snfilter_pushback has just been called after a read that returned the
\* end of the file as the character after the first, and the flag is clear
PushbackAtEof ==
  /\ lastop = "pushback"
  /\ fil.c = SNERR_EOF
  /\ fil.line_count > 0
  /\ out # <<>>
  /\ ~fil.pushback

(***************************************************************************)
(* Properties of the token readers (SpecToken).                            *)
(***************************************************************************)

\* C16: a token read that meets the end of the input before a token
\* starts or within a token returns the end-of-file error, in shastina.c
\* (where only the check for trailing content after the final token may
\* meet the end of the input) and in the block reader; and on an empty
\* input file the first read does so at line 1 without ending in abort().
EofIsReported ==
  /\ (InLoop /\ ~aborted /\ rd.tok.fil.c = SNERR_EOF /\ ~rd.tok.term)
       => tk.status = SNERR_EOF
  /\ (rd.n = 1 /\ pIn.data = <<>>)
       => ~aborted /\ tk.status = SNERR_EOF /\ snfilter_count(fil) = 1
  /\ (BlockCalls > 0 /\ ps.c = SHASM_INPUT_EOF)
       => bret = 0 /\ shasm_block_status(pb, 0).code = SHASM_ERR_EOF
  /\ (BlockCalls = 1 /\ ps.src.data = <<>>)
       => shasm_block_status(pb, 0) = [code |-> SHASM_ERR_EOF, pLine |-> 1]

\* the bytes of s all lie in lo..hi
AllWithin(s, lo, hi) == \A i \in 1..Len(s) : s[i] >= lo /\ s[i] <= hi

\* the token in the buffer of the block reader
BlockTokenBytes == SubSeq(pb.pBuf, 1, shasm_block_count(pb))

\* C17: a token returned by a successful sntk_readToken or
\* shasm_block_token is not empty and all its bytes are visible printing
\* ASCII characters, so that the block reader hands it out as a string;
\* and when the character read last within a token is not one a token or
\* its end may hold, the read fails with SNERR_BADCHAR, or
\* SHASM_ERR_TOKENCHAR in the block reader.
TokenBytesVisible ==
  /\ (InLoop /\ ~aborted /\ rd.tok.err = 0) =>
       /\ snbuffer_count(rd.tok.buf) > 0
       /\ AllWithin(snbuffer_get(rd.tok.buf).str, ASCII_VISIBLE_MIN,
                    ASCII_VISIBLE_MAX)
  /\ (InLoop /\ ~aborted /\ rd.tok.c >= 0 /\ ~snchar_islegal(rd.tok.c)) =>
       /\ rd.tok.err = SNERR_BADCHAR
       /\ tk.status = SNERR_BADCHAR
  /\ (BlockCalls > 0 /\ bret = 1) =>
       /\ shasm_block_count(pb) > 0
       /\ AllWithin(BlockTokenBytes, SHASM_ASCII_VISPRINT_MIN,
                    SHASM_ASCII_VISPRINT_MAX)
       /\ ~shasm_block_ptr(pb, TRUE).pc.null
  /\ (BlockCalls > 0 /\ ps.c >= 0 /\ ~InVisPrint(ps.c)
        /\ ps.c \notin {SHASM_ASCII_HT, SHASM_ASCII_SP, SHASM_ASCII_LF}) =>
       /\ bret = 0
       /\ shasm_block_status(pb, 0).code = SHASM_ERR_TOKENCHAR

\* sntoken_read has failed on an illegal byte after the first byte of its
\* second token, and the block reader has read its first token
IllegalByteInSecondToken ==
  /\ rd.n = 2
  /\ ~aborted
  /\ rd.tok.err = SNERR_BADCHAR
  /\ rd.tok.buf.count = 1
  /\ BlockCalls = 1
  /\ bret = 1

\* the bytes of the input consumed so far by the filter of the block reader
BlockConsumed == ps.src.pos - Len(ps.ahead)

\* a token whose first byte is in atomsA (read by sntk_readToken) or in
\* atomsB (read by shasm_block_token) is read with success, is that one
\* byte, and that byte is the last one taken from the input: it is the
\* character the filter holds, it is not pushed back, and the stream stands
\* just after it
AtomicAlone(atomsA, atomsB) ==
  /\ ( /\ InLoop /\ ~aborted
       /\ snbuffer_count(rd.tok.buf) >= 1
       /\ rd.tok.buf.pBuf[1] \in atomsA ) =>
       /\ rd.tok.err = 0
       /\ snbuffer_count(rd.tok.buf) = 1
       /\ rd.tok.fil.c = rd.tok.buf.pBuf[1]
       /\ ~rd.tok.fil.pushback
       /\ rd.tok.f.pos >= 1
       /\ rd.tok.f.data[rd.tok.f.pos] = rd.tok.buf.pBuf[1]
  /\ (BlockCalls > 0 /\ pb.buf_len >= 1 /\ pb.pBuf[1] \in atomsB) =>
       /\ bret = 1
       /\ shasm_block_count(pb) = 1
       /\ ps.c = pb.pBuf[1]
       /\ ~ps.pushback
       /\ BlockConsumed >= 1
       /\ ps.src.data[BlockConsumed] = pb.pBuf[1]

\* C18, as corrected: the atomic characters are ( ) [ ] , % ; " ` { } in
\* shastina.c and ( ) [ ] , % ; " ' { in the block reader; a token whose
\* first byte is atomic for the reader that reads it is exactly that byte,
\* and no further byte of the input is consumed for it.
AtomicTokenAlone ==
  AtomicAlone({ASCII_LPAREN, ASCII_RPAREN, ASCII_LSQR, ASCII_RSQR,
               ASCII_COMMA, ASCII_PERCENT, ASCII_SEMICOLON, ASCII_DQUOTE,
               ASCII_GRACCENT, ASCII_LCURL, ASCII_RCURL},
              {ASCII_LPAREN, ASCII_RPAREN, ASCII_LSQR, ASCII_RSQR,
               ASCII_COMMA, ASCII_PERCENT, ASCII_SEMICOLON, ASCII_DQUOTE,
               SHASM_ASCII_SQUOTE, ASCII_LCURL})

\* both readers have read the token ; from a file that goes on after it
SemicolonReadAlone ==
  /\ rd.n = 1
  /\ ~aborted
  /\ rd.tok.buf.pBuf = <<ASCII_SEMICOLON>>
  /\ pIn.data = <<ASCII_SEMICOLON, 97>>
  /\ pIn.pos = 1
  /\ BlockCalls = 1
  /\ BlockTokenBytes = <<SHASM_ASCII_SEMICOLON>>
  /\ BlockConsumed = 1

\* C18, as claimed: the same with the twelve characters
\* ( ) [ ] , % ; " ' ` { } atomic in both readers.
AtomicTokenAloneAsListed ==
  AtomicAlone({ASCII_LPAREN, ASCII_RPAREN, ASCII_LSQR, ASCII_RSQR,
               ASCII_COMMA, ASCII_PERCENT, ASCII_SEMICOLON, ASCII_DQUOTE,
               SHASM_ASCII_SQUOTE, ASCII_GRACCENT, ASCII_LCURL,
               ASCII_RCURL},
              {ASCII_LPAREN, ASCII_RPAREN, ASCII_LSQR, ASCII_RSQR,
               ASCII_COMMA, ASCII_PERCENT, ASCII_SEMICOLON, ASCII_DQUOTE,
               SHASM_ASCII_SQUOTE, ASCII_GRACCENT, ASCII_LCURL,
               ASCII_RCURL})

\* the token T ends at the first character after its first byte that is in
\* incl or excl.  e bytes of the file data are consumed, c is the
\* character the filter holds, pushed back if back, and next the character
\* the next read of the filter returns.  Either the last byte of T is in
\* incl, is the byte consumed last and is not pushed back; or no byte of T
\* after the first is a stop character and the character that stopped the
\* token, in excl, is the byte consumed last, is pushed back and is read
\* next.  No byte between the first and the last is a stop character.
EndsAtStop(T, data, e, c, back, next, incl, excl) ==
  LET L == Len(T) IN
  /\ \A i \in 2..(L - 1) : T[i] \notin incl \cup excl
  /\ \/ /\ L >= 2
        /\ T[L] \in incl
        /\ ~back
        /\ c = T[L]
        /\ e >= L
        /\ T = SubSeq(data, e - L + 1, e)
     \/ /\ L >= 2 => T[L] \notin incl \cup excl
        /\ back
        /\ c \in excl
        /\ next = c
        /\ e > L
        /\ data[e] = c
        /\ T = SubSeq(data, e - L, e - 1)

\* the rule for the tokens that start with a character that is not atomic
\* and are not the final token, as read with success by sntk_readToken
\* (atomsA, inclA, exclA) and by shasm_block_token (atomsB, inclB, exclB)
StopRule(atomsA, inclA, exclA, atomsB, inclB, exclB) ==
  /\ ( /\ InLoop /\ ~aborted
       /\ rd.tok.err = 0
       /\ ~rd.tok.term
       /\ rd.tok.buf.pBuf[1] \notin atomsA ) =>
       EndsAtStop(rd.tok.buf.pBuf, rd.tok.f.data, rd.tok.f.pos,
                  rd.tok.fil.c, rd.tok.fil.pushback,
                  snfilter_read(rd.tok.fil, rd.tok.f).ret, inclA, exclA)
  /\ ( /\ BlockCalls > 0
       /\ bret = 1
       /\ BlockTokenBytes # <<SHASM_ASCII_BAR, SHASM_ASCII_SEMICOLON>>
       /\ BlockTokenBytes[1] \notin atomsB ) =>
       EndsAtStop(BlockTokenBytes, ps.src.data, BlockConsumed, ps.c,
                  ps.pushback, shasm_input_get(ps).c, inclB, exclB)

\* C19, as corrected: a token that does not start with an atomic
\* character ends at the first stop character after its first byte.  In
\* shastina.c the inclusive stops are " ` { and the exclusive stops are
\* whitespace ( ) [ ] , % ; # }; in the block reader the inclusive stops
\* are " ' { and the exclusive stops are whitespace ( ) [ ] , % ; &.  An
\* inclusive stop is appended and consumed; an exclusive stop is not
\* appended and is pushed back, so that the next read delivers it.
TokenEndsAtStop ==
  StopRule({ASCII_LPAREN, ASCII_RPAREN, ASCII_LSQR, ASCII_RSQR,
            ASCII_COMMA, ASCII_PERCENT, ASCII_SEMICOLON, ASCII_DQUOTE,
            ASCII_GRACCENT, ASCII_LCURL, ASCII_RCURL},
           {ASCII_DQUOTE, ASCII_GRACCENT, ASCII_LCURL},
           {ASCII_HT, ASCII_SP, ASCII_LF, ASCII_LPAREN, ASCII_RPAREN,
            ASCII_LSQR, ASCII_RSQR, ASCII_COMMA, ASCII_PERCENT,
            ASCII_SEMICOLON, ASCII_POUNDSIGN, ASCII_RCURL},
           {ASCII_LPAREN, ASCII_RPAREN, ASCII_LSQR, ASCII_RSQR,
            ASCII_COMMA, ASCII_PERCENT, ASCII_SEMICOLON, ASCII_DQUOTE,
            SHASM_ASCII_SQUOTE, ASCII_LCURL},
           {ASCII_DQUOTE, SHASM_ASCII_SQUOTE, ASCII_LCURL},
           {ASCII_HT, ASCII_SP, ASCII_LF, ASCII_LPAREN, ASCII_RPAREN,
            ASCII_LSQR, ASCII_RSQR, ASCII_COMMA, ASCII_PERCENT,
            ASCII_SEMICOLON, SHASM_ASCII_AMPERSAND})

\* both readers have read the token a from a file that goes on with a
\* semicolon, and hold the semicolon pushed back
StoppedBeforeSemicolon ==
  /\ rd.n = 1
  /\ ~aborted
  /\ rd.tok.buf.pBuf = <<97>>
  /\ fil.pushback
  /\ fil.c = ASCII_SEMICOLON
  /\ BlockCalls = 1
  /\ BlockTokenBytes = <<97>>
  /\ ps.pushback
  /\ ps.c = SHASM_ASCII_SEMICOLON

\* C19, as claimed: the same with the inclusive stops " ' { in both
\* readers and ` besides in shastina.c, the exclusive stops whitespace
\* ( ) [ ] , % ; # } in both, and the twelve atomic characters of the
\* specification.
TokenEndsAtStopAsListed ==
  StopRule({ASCII_LPAREN, ASCII_RPAREN, ASCII_LSQR, ASCII_RSQR,
            ASCII_COMMA, ASCII_PERCENT, ASCII_SEMICOLON, ASCII_DQUOTE,
            SHASM_ASCII_SQUOTE, ASCII_GRACCENT, ASCII_LCURL, ASCII_RCURL},
           {ASCII_DQUOTE, SHASM_ASCII_SQUOTE, ASCII_LCURL, ASCII_GRACCENT},
           {ASCII_HT, ASCII_SP, ASCII_LF, ASCII_LPAREN, ASCII_RPAREN,
            ASCII_LSQR, ASCII_RSQR, ASCII_COMMA, ASCII_PERCENT,
            ASCII_SEMICOLON, ASCII_POUNDSIGN, ASCII_RCURL},
           {ASCII_LPAREN, ASCII_RPAREN, ASCII_LSQR, ASCII_RSQR,
            ASCII_COMMA, ASCII_PERCENT, ASCII_SEMICOLON, ASCII_DQUOTE,
            SHASM_ASCII_SQUOTE, ASCII_GRACCENT, ASCII_LCURL, ASCII_RCURL},
           {ASCII_DQUOTE, SHASM_ASCII_SQUOTE, ASCII_LCURL},
           {ASCII_HT, ASCII_SP, ASCII_LF, ASCII_LPAREN, ASCII_RPAREN,
            ASCII_LSQR, ASCII_RSQR, ASCII_COMMA, ASCII_PERCENT,
            ASCII_SEMICOLON, ASCII_POUNDSIGN, ASCII_RCURL})

\* the number of bytes of the file that had been delivered for good when
\* the most recent sntoken_read was called
ReadFrom == rd.f.pos - (IF rd.fil.pushback THEN 1 ELSE 0)

\* the bytes of the file from byte i on are a vertical bar and a semicolon
BarSemicolonAt(data, i) ==
  /\ Len(data) >= i + 1
  /\ data[i] = ASCII_BAR
  /\ data[i + 1] = ASCII_SEMICOLON

\* the bytes of the file from byte i on are a vertical bar and another
\* byte that is not a semicolon
BarOtherAt(data, i) ==
  /\ Len(data) >= i + 1
  /\ data[i] = ASCII_BAR
  /\ data[i + 1] # ASCII_SEMICOLON

\* C20: a token that starts with a vertical bar directly followed by a
\* semicolon is the two bytes |; and takes no further byte into the
\* buffer (the block reader consumes nothing after it; sntk_readToken goes
\* on to look for trailing content and may fail on it).  When another byte
\* follows the bar, that byte is pushed back and read again as the
\* second character of an ordinary token: a token read with success is
\* the bytes of the file from the bar up to its stop character.  A token
\* that does not start with a bar holds no semicolon after its first byte
\* and is not the final token.
BarThenSemicolon ==
  /\ (InLoop /\ ~aborted /\ BarSemicolonAt(rd.f.data, ReadFrom + 1)) =>
       /\ rd.tok.term
       /\ rd.tok.err \in {0, SNERR_TRAILER}
       /\ rd.tok.buf.pBuf = <<ASCII_BAR, ASCII_SEMICOLON>>
       /\ rd.tok.err = 0 => tk.status = SNTOKEN_FINAL
  /\ (InLoop /\ ~aborted /\ BarOtherAt(rd.f.data, ReadFrom + 1)) =>
       /\ ~rd.tok.term
       /\ rd.tok.buf.pBuf[1] = ASCII_BAR
       /\ rd.tok.err = 0 =>
            /\ rd.tok.buf.pBuf =
                 SubSeq(rd.f.data, ReadFrom + 1,
                        ReadFrom + snbuffer_count(rd.tok.buf))
            /\ rd.tok.fil.pushback \/ snchar_isinclusive(rd.tok.fil.c)
  /\ ( /\ InLoop /\ ~aborted /\ rd.tok.err = 0
       /\ rd.tok.buf.pBuf[1] # ASCII_BAR ) =>
       /\ ~rd.tok.term
       /\ tk.status # SNTOKEN_FINAL
       /\ \A i \in 2..snbuffer_count(rd.tok.buf) :
            rd.tok.buf.pBuf[i] # ASCII_SEMICOLON
  /\ (BlockCalls = 1 /\ BarSemicolonAt(ps.src.data, 1)) =>
       /\ bret = 1
       /\ BlockTokenBytes = <<SHASM_ASCII_BAR, SHASM_ASCII_SEMICOLON>>
       /\ BlockConsumed = 2
       /\ ~ps.pushback
  /\ (BlockCalls = 1 /\ BarOtherAt(ps.src.data, 1)) =>
       /\ bret = 1 =>
            /\ pb.pBuf[1] = SHASM_ASCII_BAR
            /\ BlockTokenBytes =
                 SubSeq(ps.src.data, 1, shasm_block_count(pb))
            /\ ps.pushback \/ ps.c \in InclusiveStop
  /\ (BlockCalls > 0 /\ bret = 1 /\ BlockTokenBytes[1] # SHASM_ASCII_BAR) =>
       \A i \in 2..shasm_block_count(pb) :
         BlockTokenBytes[i] # SHASM_ASCII_SEMICOLON

\* both readers have read the final token from a file that has a space
\* after it: the block reader has left the space unread, sntoken_read has
\* read to the end of the file
FinalTokenRead ==
  /\ rd.n = 1
  /\ ~aborted
  /\ tk.status = SNTOKEN_FINAL
  /\ tk.pKey.pBuf = <<ASCII_BAR, ASCII_SEMICOLON>>
  /\ pIn.data = <<ASCII_BAR, ASCII_SEMICOLON, ASCII_SP>>
  /\ pIn.pos = 3
  /\ BlockCalls = 1
  /\ bret = 1
  /\ BlockConsumed = 2

(***************************************************************************)
(* Properties of the string readers and of the check after the final       *)
(* token (SpecString).                                                     *)
(***************************************************************************)
\* the index of the first byte of data, from index i on, that is neither
\* whitespace nor part of a comment (a pound sign and the bytes up to the
\* next LF), or Len(data) + 1 if there is none
RECURSIVE TrailerEnd(_, _, _)
TrailerEnd(data, i, comment) ==
  IF i > Len(data) THEN i
  ELSE IF comment THEN TrailerEnd(data, i + 1, data[i] # ASCII_LF)
  ELSE IF data[i] \in {ASCII_SP, ASCII_HT, ASCII_LF}
    THEN TrailerEnd(data, i + 1, FALSE)
  ELSE IF data[i] = ASCII_POUNDSIGN THEN TrailerEnd(data, i + 1, TRUE)
  ELSE i

\* the status the claim gives to a read of the final token whose last byte
\* is byte e of the stream f: an I/O error met before a byte that is no
\* whitespace and no comment is that error; such a byte is trailing
\* content; otherwise the read returns the final token
TrailerStatus(f, e) ==
  LET stop == TrailerEnd(f.data, e + 1, FALSE) IN
  IF f.errAt > e /\ f.errAt <= stop THEN SNERR_IOERR
  ELSE IF stop <= Len(f.data) THEN SNERR_TRAILER
  ELSE SNTOKEN_FINAL

\* sntoken_read after it has read the bytes |; of the final token
TrailerChecked ==
  (InLoop /\ ~aborted /\ rd.tok.term) =>
    /\ BarSemicolonAt(rd.f.data, ReadFrom + 1)
    /\ tk.status = TrailerStatus(rd.f, ReadFrom + 2)
    /\ tk.status = SNTOKEN_FINAL =>
         /\ tk.pKey.pBuf = <<ASCII_BAR, ASCII_SEMICOLON>>
         /\ fil.c = SNERR_EOF
         /\ pIn.pos = Len(pIn.data)
         /\ feof(pIn)
    /\ tk.status # SNTOKEN_FINAL =>
         /\ snbuffer_count(tk.pKey) = 0
         /\ snbuffer_count(tk.pValue) = 0

\* shasm_block_token after it has read the bytes |; as its first token
BlockLeavesTrailer ==
  (BlockCalls = 1 /\ BarSemicolonAt(ps.src.data, 1)
     /\ ps.src.errAt \notin {1, 2}) =>
    /\ bret = 1
    /\ BlockTokenBytes = <<SHASM_ASCII_BAR, SHASM_ASCII_SEMICOLON>>
    /\ BlockConsumed = 2
    /\ ~ps.src.err
    /\ ~ps.src.eof

\* shasm_block_token doing what the statement says of the scanner
BlockChecksTrailer ==
  (BlockCalls = 1 /\ BarSemicolonAt(ps.src.data, 1)
     /\ ps.src.errAt \notin {1, 2}) =>
    /\ (bret = 1) = (TrailerStatus(ps.src, 2) = SNTOKEN_FINAL)
    /\ bret = 1 => BlockConsumed = Len(ps.src.data)

\* C21: when sntoken_read of shastina.c has read the final token |; it
\* reads on to the end of the input.  The read returns the final token
\* only if nothing but whitespace and comments follows, and then the filter
\* is at the end of the file; a read error met on the way is returned as
\* SNERR_IOERR; any other byte, met before a read error, gives
\* SNERR_TRAILER.  shasm_block_token returns the token |; without reading
\* any byte after it.
FinalTokenEndsInput ==
  /\ TrailerChecked
  /\ BlockLeavesTrailer

\* the file |; a with a space between: sntoken_read has failed with
\* SNERR_TRAILER, the block reader has returned the token and left the
\* space and the letter unread
TrailingContentRead ==
  /\ pIn.data = <<ASCII_BAR, ASCII_SEMICOLON, ASCII_SP, 97>>
  /\ pIn.errAt = 0
  /\ rd.n = 1
  /\ ~aborted
  /\ rd.tok.term
  /\ tk.status = SNERR_TRAILER
  /\ BlockCalls = 1
  /\ bret = 1
  /\ BlockConsumed = 2

\* C21, as stated of both token readers: shasm_block_token, too, reads on
\* after the final token and succeeds only at the end of the input
FinalTokenEndsInputBothReaders ==
  /\ TrailerChecked
  /\ BlockChecksTrailer

\* the most recent sntoken_read has read a prefix token that ends in the
\* opening delimiter open, starting at the first byte not yet delivered
\* (no whitespace or comment before it), and has gone on to read the
\* string
StringReadOf(open) ==
  /\ InLoop
  /\ ~aborted
  /\ rd.tok.err = 0
  /\ snbuffer_last(rd.tok.buf) = open
  /\ rd.tok.buf.pBuf =
       SubSeq(rd.f.data, ReadFrom + 1, ReadFrom + snbuffer_count(rd.tok.buf))

\* the index in the file of the first byte after the opening delimiter
BodyFrom == ReadFrom + snbuffer_count(rd.tok.buf) + 1

\* the index of the first double quote of data, from index i on, that is
\* read with the escape flag clear, the flag being esc before byte i and
\* being set after a byte exactly when that byte is a backslash;
\* Len(data) + 1 if there is none
RECURSIVE QuoteEnd(_, _, _)
QuoteEnd(data, i, esc) ==
  IF i > Len(data) THEN i
  ELSE IF ~esc /\ data[i] = ASCII_DQUOTE THEN i
  ELSE QuoteEnd(data, i + 1, data[i] = ASCII_BACKSLASH)

\* a quoted string ends at the first double quote read with the escape
\* flag clear: when the read succeeds the value is the bytes before that
\* quote and the quote is the last byte consumed; when no read error, no
\* zero byte and no overlong value comes before that quote, the read
\* succeeds
QuotedEndsAtFlagClear ==
  StringReadOf(ASCII_DQUOTE) =>
    LET data == rd.f.data
        e == QuoteEnd(data, BodyFrom, FALSE)
    IN /\ tk.status >= 0 =>
            /\ tk.status = SNTOKEN_STRING
            /\ tk.str_type = SNSTRING_QUOTED
            /\ e <= Len(data)
            /\ tk.pValue.pBuf = SubSeq(data, BodyFrom, e - 1)
            /\ pIn.pos = e
            /\ ~fil.pushback
       /\ ( /\ e <= Len(data)
            /\ rd.f.errAt = 0
            /\ \A i \in BodyFrom..e : data[i] # 0
            /\ e - BodyFrom < tk.pValue.maxcap - 1 ) => tk.status >= 0

\* a double quote that follows two consecutive backslashes directly, and
\* that the string reader has come to, ends the string
QuoteAfterTwoBackslashes ==
  StringReadOf(ASCII_DQUOTE) =>
    \A i \in (BodyFrom + 2)..Len(rd.f.data) :
      ( /\ rd.f.data[i] = ASCII_DQUOTE
        /\ rd.f.data[i - 1] = ASCII_BACKSLASH
        /\ rd.f.data[i - 2] = ASCII_BACKSLASH
        /\ pIn.pos >= i
        /\ rd.f.errAt = 0 ) =>
        /\ tk.status = SNTOKEN_STRING
        /\ pIn.pos = i

\* C22: in a quoted string the escape flag after a byte is set exactly
\* when that byte is a backslash, the string ends at the first double
\* quote read with the flag clear, and a double quote directly after two
\* consecutive backslashes ends the string.
QuotedEscapeRule ==
  /\ QuotedEndsAtFlagClear
  /\ QuoteAfterTwoBackslashes

\* the index of the right curly bracket of data, from index i on, that
\* brings the nesting level to zero, the level being level and the escape
\* flag esc before byte i: a left bracket read with the flag clear adds one
\* to the level, a right bracket read with the flag clear takes one off,
\* and the flag is set after a byte exactly when that byte is a backslash;
\* Len(data) + 1 if there is none
RECURSIVE CurlyEnd(_, _, _, _)
CurlyEnd(data, i, esc, level) ==
  IF i > Len(data) THEN i
  ELSE LET lv == IF ~esc /\ data[i] = ASCII_LCURL THEN level + 1
                 ELSE IF ~esc /\ data[i] = ASCII_RCURL THEN level - 1
                 ELSE level
       IN IF lv = 0 THEN i
          ELSE CurlyEnd(data, i + 1, data[i] = ASCII_BACKSLASH, lv)

\* the least number of a non-empty set of numbers
Least(S) == CHOOSE x \in S : \A y \in S : x <= y

\* the status of a string read of the stream f whose body starts at byte
\* from and whose closing delimiter is byte e (Len + 1: there is none),
\* the value buffer taking most bytes: whatever comes first of a read
\* error, a zero byte, a byte the buffer has no room for, the end of the
\* file and the closing delimiter decides
StringStatus(f, from, e, most) ==
  LET zero == Least({ i \in from..(e - 1) : f.data[i] = 0 } \cup {e})
      full == from + most
      stop == Least({zero, full, e})
  IN IF f.errAt >= from /\ f.errAt <= stop THEN SNERR_IOERR
     ELSE IF zero = stop /\ zero < e THEN SNERR_NULLCHR
     ELSE IF full = stop /\ full < e THEN SNERR_LONGSTR
     ELSE IF e > Len(f.data) THEN SNERR_OPENSTR
     ELSE SNTOKEN_STRING

\* C23: a string read, quoted or curly, fails with SNERR_NULLCHR at a zero
\* byte met before the closing delimiter, with SNERR_OPENSTR (never
\* SNERR_EOF) at the end of the input before the closing delimiter, and
\* with SNERR_IOERR at a read error; the value of a string that was read
\* with success holds no zero byte.
StringErrorsReported ==
  /\ StringReadOf(ASCII_DQUOTE) =>
       tk.status = StringStatus(rd.f, BodyFrom,
                                QuoteEnd(rd.f.data, BodyFrom, FALSE),
                                tk.pValue.maxcap - 1)
  /\ StringReadOf(ASCII_LCURL) =>
       tk.status = StringStatus(rd.f, BodyFrom,
                                CurlyEnd(rd.f.data, BodyFrom, FALSE, 1),
                                tk.pValue.maxcap - 1)
  /\ (InLoop /\ ~aborted /\ tk.status = SNTOKEN_STRING) =>
       \A i \in 1..snbuffer_count(tk.pValue) : tk.pValue.pBuf[i] # 0
  /\ (StringReadOf(ASCII_DQUOTE) \/ StringReadOf(ASCII_LCURL)) =>
       tk.status # SNERR_EOF

\* the file { a 00 } has been read: the curly string has failed at the
\* zero byte, before its closing bracket
ZeroByteInCurlyString ==
  /\ pIn.data = <<ASCII_LCURL, 97, 0, ASCII_RCURL>>
  /\ pIn.errAt = 0
  /\ rd.n = 1
  /\ ~aborted
  /\ StringReadOf(ASCII_LCURL)
  /\ tk.status = SNERR_NULLCHR
  /\ pIn.pos = 3

\* C24: a curly string is read with a nesting level that starts at 1,
\* goes up at a left bracket and down at a right bracket read with the
\* escape flag clear, and is left alone by a bracket that directly follows
\* a backslash.  The string ends at the right bracket that brings the
\* level to 0: that bracket is the last byte consumed and is not stored,
\* and the value is the bytes before it, in order.  The read succeeds
\* exactly when that bracket comes before any read error, zero byte,
\* overlong value and the end of the file.
CurlyNestingRule ==
  StringReadOf(ASCII_LCURL) =>
    LET data == rd.f.data
        e == CurlyEnd(data, BodyFrom, FALSE, 1)
    IN /\ (tk.status >= 0) =
            (StringStatus(rd.f, BodyFrom, e, tk.pValue.maxcap - 1)
               = SNTOKEN_STRING)
       /\ tk.status >= 0 =>
            /\ tk.status = SNTOKEN_STRING
            /\ tk.str_type = SNSTRING_CURLY
            /\ e <= Len(data)
            /\ data[e] = ASCII_RCURL
            /\ tk.pValue.pBuf = SubSeq(data, BodyFrom, e - 1)
            /\ snbuffer_count(tk.pValue) = e - BodyFrom
            /\ pIn.pos = e
            /\ fil.c = ASCII_RCURL
            /\ ~fil.pushback
       /\ tk.status < 0 => pIn.pos <= e

\* the file {a{a}a} has been read: the value is a{a}a and the stream
\* stands after the last bracket
NestedCurlyRead ==
  /\ pIn.data = <<ASCII_LCURL, 97, ASCII_LCURL, 97, ASCII_RCURL, 97,
                  ASCII_RCURL>>
  /\ rd.n = 1
  /\ ~aborted
  /\ tk.status = SNTOKEN_STRING
  /\ tk.str_type = SNSTRING_CURLY
  /\ tk.pValue.pBuf = <<97, ASCII_LCURL, 97, ASCII_RCURL, 97>>
  /\ snbuffer_count(tk.pKey) = 0
  /\ pIn.pos = 7

\* C26: a read that fails leaves no partial result.  After a failed
\* sntoken_read the key buffer and the value buffer are empty, the string
\* type is 0 and the status is the error, whether the prefix token or the
\* body of the string failed; a failed read of the block reader, token or
\* string, has set the error state, also when a call of shasm_block_encode
\* failed after bytes were appended, and in the error state the block
\* reader's buffer is cleared and its length reads as 0.
NoPartialResult ==
  /\ (InLoop /\ ~aborted /\ tk.status < 0) =>
       /\ snbuffer_count(tk.pKey) = 0
       /\ tk.pKey.pBuf = <<>>
       /\ snbuffer_count(tk.pValue) = 0
       /\ tk.pValue.pBuf = <<>>
       /\ tk.str_type = 0
  /\ (InLoop /\ ~aborted /\ rd.tok.err # 0) => tk.status = rd.tok.err
  /\ (InLoop /\ ~aborted /\ tk.status >= 0) =>
       /\ rd.tok.err = 0
       /\ tk.status \in {SNTOKEN_FINAL, SNTOKEN_SIMPLE, SNTOKEN_STRING,
                         SNTOKEN_EMBED}
  /\ (BlockCalls > 0 /\ bret = 0) => pb.code # SHASM_OKAY
  /\ (BlockCalls > 0 /\ lastop = "string" /\ enc.status = 0) =>
       /\ bret = 0
       /\ pb.code # SHASM_OKAY
  /\ pb.code # SHASM_OKAY =>
       /\ pb.buf_len = 0
       /\ pb.pBuf = Zeros(pb.buf_cap)
       /\ ~pb.null_present
       /\ shasm_block_count(pb) = 0

\* both reads of the file " a have failed partway: sntoken_read has read
\* the prefix token, stored the letter and then failed with
\* SNERR_OPENSTR; shasm_block_string has appended the bytes of entities,
\* its last call of shasm_block_encode has appended a byte of its entity
\* and failed, and the block reader is in the error state of a huge block
\* with its buffer cleared
ReadsFailedPartway ==
  /\ pIn.data = <<ASCII_DQUOTE, 97>>
  /\ pIn.errAt = 0
  /\ rd.n = 1
  /\ ~aborted
  /\ rd.tok.err = 0
  /\ rd.tok.buf.pBuf = <<ASCII_DQUOTE>>
  /\ tk.status = SNERR_OPENSTR
  /\ snbuffer_count(tk.pValue) = 0
  /\ BlockCalls > 0
  /\ lastop = "string"
  /\ bret = 0
  /\ enc.n > 1
  /\ enc.status = 0
  /\ enc.before.code = SHASM_OKAY
  /\ enc.before.buf_len > 0
  /\ shasm_block_encode(enc.before, enc.entity, enc.penc, enc.o_over,
                        enc.o_strict, shasm_block_tbuf_init).pb.buf_len
       > enc.before.buf_len
  /\ pb.code = SHASM_ERR_HUGEBLOCK
  /\ pb.buf_len = 0

(***************************************************************************)
(* Properties of the block reader's line number and buffer.                *)
(***************************************************************************)
\* the index in the file of the first byte of the token the block reader
\* has just read with success: the token is the last bytes consumed, a
\* stop character that was pushed back not counted
BlockTokenFrom ==
  BlockConsumed - (IF ps.pushback THEN 1 ELSE 0) - shasm_block_count(pb) + 1

\* after a token read with success shasm_block_line is the line of the
\* first byte of the token: 1 plus the number of line feeds before it
TokenLineIsStartLine ==
  (BlockCalls > 0 /\ bret = 1 /\ lastop = "token") =>
    /\ BlockTokenBytes =
         SubSeq(ps.src.data, BlockTokenFrom,
                BlockTokenFrom + shasm_block_count(pb) - 1)
    /\ shasm_block_line(pb) = 1 + LineFeeds(ps.src.data, BlockTokenFrom - 1)

\* a token read with success after another reports a line that is not
\* less than the line reported before
TokenLineStep ==
  (BlockCalls > 0 /\ bret = 1 /\ bret' = 1 /\ ncalls' = ncalls + 1) =>
    shasm_block_line(pb') >= shasm_block_line(pb)

\* C27: after a successful shasm_block_token, shasm_block_line returns the
\* line of the first byte of the token, whatever whitespace, comments and
\* line breaks were skipped before it and whatever stopped the token; from
\* one successful token read to the next the line reported does not
\* decrease.
TokenLineReported == []TokenLineIsStartLine /\ [][TokenLineStep]_vars

\* the file ; LF ; after two token reads: the second token is on line 2
SecondTokenOnSecondLine ==
  /\ ps.src.data = <<SHASM_ASCII_SEMICOLON, SHASM_ASCII_LF,
                     SHASM_ASCII_SEMICOLON>>
  /\ BlockCalls = 2
  /\ bret = 1
  /\ lastop = "token"
  /\ BlockTokenBytes = <<SHASM_ASCII_SEMICOLON>>
  /\ BlockTokenFrom = 3
  /\ shasm_block_line(pb) = 2

\* the bytes the block reader's buffer holds
BufferBytes(b) == SubSeq(b.pBuf, 1, b.buf_len)

\* a read call that succeeds leaves in the buffer what the same call
\* leaves when it is made with the buffer emptied before: nothing of an
\* earlier read remains
ReadLeavesOwnBytes ==
  (ncalls' = ncalls + 1 /\ bret' = 1) =>
    LET s == [ps EXCEPT !.src.calls = 0]
        Same(r) == r.status = 1 /\ BufferBytes(pb') = BufferBytes(r.pb)
    IN IF lastop' = "token"
         THEN Same(shasm_block_token(shasm_block_clear(pb), s))
         ELSE \E sp \in StringSpecs :
                Same(shasm_block_string(shasm_block_clear(pb), s, sp))

\* C28: the buffer of the block reader is cleared at the start of every
\* read operation: after a successful shasm_block_token or
\* shasm_block_string it holds the bytes produced by that call only.
BufferClearedByEveryRead == [][ReadLeavesOwnBytes]_vars

(***************************************************************************)
(* Properties of the entity encoder (SpecEncode).                          *)
(***************************************************************************)

\* the backend of an override mode other than none, applied to an entity
Backend(mode, b, entity) ==
  CASE mode = SHASM_BLOCK_OMODE_UTF8 -> shasm_block_utf8(b, entity, FALSE)
    [] mode = SHASM_BLOCK_OMODE_CESU8 -> shasm_block_utf8(b, entity, TRUE)
    [] mode = SHASM_BLOCK_OMODE_U16LE -> shasm_block_utf16(b, entity, FALSE)
    [] mode = SHASM_BLOCK_OMODE_U16BE -> shasm_block_utf16(b, entity, TRUE)
    [] mode = SHASM_BLOCK_OMODE_U32LE -> shasm_block_utf32(b, entity, FALSE)
    [] mode = SHASM_BLOCK_OMODE_U32BE -> shasm_block_utf32(b, entity, TRUE)

\* the entities that go to the encoding table whatever the override mode
\* is: those above 0x10FFFF and, with the strict flag, 0xD800 to 0xDFFF
ForcedToTable(entity, o_strict) ==
  \/ entity > 1114111
  \/ o_strict /\ entity >= 55296 /\ entity <= 57343

\* a call on a block reader that is not in error state does what the
\* encoding table does, running its callback, or what the backend of the
\* override mode does, running no callback and leaving the temporary
\* buffer as it was
EncodeDispatch ==
  (EncodeStep /\ pb.code = SHASM_OKAY) =>
    LET e == enc'.entity
        ByTable(t) ==
          /\ enc'.maps >= 1
          /\ pb' = t.pb
          /\ enc'.pt = t.pt
          /\ enc'.status = t.status
        ByBackend(u) ==
          /\ enc'.maps = 0
          /\ pb' = u.pb
          /\ enc'.pt = enc.pt
          /\ enc'.status = u.status
    IN IF ForcedToTable(e, enc'.o_strict)
            \/ enc'.o_over = SHASM_BLOCK_OMODE_NONE
         THEN ByTable(shasm_block_ereg(pb, e, enc'.penc, enc.pt))
         ELSE ByBackend(Backend(enc'.o_over, pb, e))

\* C29: an entity is encoded by the encoding table if it is above
\* 0x10FFFF, or the strict flag is set and it is a surrogate, or the
\* override mode is none; in every other case it is encoded by the backend
\* of the override mode and the callback of the encoding table is not run.
EncoderDispatch == [][EncodeDispatch]_vars

\* an entity above 0x10FFFF was encoded under the UTF-8 override: the
\* callback ran twice, the temporary buffer was widened, and the buffer
\* holds the bytes of the table
EntityAboveUnicodeByTable ==
  /\ EncodeCalled
  /\ enc.entity = 2097157
  /\ enc.o_over = SHASM_BLOCK_OMODE_UTF8
  /\ enc.penc = "test"
  /\ enc.before = shasm_block_alloc
  /\ enc.status = 1
  /\ enc.maps = 2
  /\ BufferBytes(pb) = Smileys(5)

\* the standard UTF-8 byte sequence of a codepoint
StandardUtf8(e) ==
  IF e < 128 THEN <<e>>
  ELSE IF e < 2048 THEN <<192 + (e \div 64), 128 + (e % 64)>>
  ELSE IF e < 65536
    THEN <<224 + (e \div 4096), 128 + ((e \div 64) % 64), 128 + (e % 64)>>
  ELSE <<240 + (e \div 262144), 128 + ((e \div 4096) % 64),
         128 + ((e \div 64) % 64), 128 + (e % 64)>>

\* the decoder of UTF-8: the value of a leading byte and of the
\* continuation bytes its length asks for, -1 for any other byte sequence
RECURSIVE Continued(_, _)
Continued(value, bytes) ==
  IF bytes = <<>> THEN value
  ELSE IF value < 0 \/ Head(bytes) < 128 \/ Head(bytes) > 191 THEN -1
  ELSE Continued(value * 64 + (Head(bytes) - 128), Tail(bytes))

Utf8Decode(bytes) ==
  IF bytes = <<>> THEN -1
  ELSE LET lead == Head(bytes)
           n == Len(bytes)
       IN IF lead < 128 THEN IF n = 1 THEN lead ELSE -1
          ELSE IF lead >= 192 /\ lead < 224
            THEN IF n = 2 THEN Continued(lead - 192, Tail(bytes)) ELSE -1
          ELSE IF lead >= 224 /\ lead < 240
            THEN IF n = 3 THEN Continued(lead - 224, Tail(bytes)) ELSE -1
          ELSE IF lead >= 240 /\ lead < 248
            THEN IF n = 4 THEN Continued(lead - 240, Tail(bytes)) ELSE -1
          ELSE -1

\* the call went to the UTF-8 backend with a codepoint and succeeded
Utf8Encoded ==
  /\ EncodeCalled
  /\ enc.o_over = SHASM_BLOCK_OMODE_UTF8
  /\ enc.entity <= 1114111
  /\ ~(enc.o_strict /\ enc.entity >= 55296 /\ enc.entity <= 57343)
  /\ enc.status = 1

\* the bytes the call appended to the buffer
EncodeOutput == SubSeq(pb.pBuf, enc.before.buf_len + 1, pb.buf_len)

\* C30: for every codepoint from 0 to 0x10FFFF, surrogates included, the
\* UTF-8 backend appends the standard UTF-8 sequence of the codepoint and
\* nothing else: 1, 2, 3 or 4 bytes for a codepoint below 0x80, 0x800,
\* 0x10000 or from there on, the leading byte first and the continuation
\* bytes with the most significant bits first, which a UTF-8 decoder
\* turns back into the codepoint.
Utf8IsStandard ==
  Utf8Encoded =>
    /\ BufferBytes(pb) = BufferBytes(enc.before) \o EncodeOutput
    /\ EncodeOutput = StandardUtf8(enc.entity)
    /\ Len(EncodeOutput) = (IF enc.entity < 128 THEN 1
                            ELSE IF enc.entity < 2048 THEN 2
                            ELSE IF enc.entity < 65536 THEN 3 ELSE 4)
    /\ Utf8Decode(EncodeOutput) = enc.entity

\* U+20AC was appended to a buffer holding a letter as E2 82 AC
EuroSignEncoded ==
  /\ Utf8Encoded
  /\ enc.entity = 8364
  /\ BufferBytes(enc.before) = <<97>>
  /\ BufferBytes(pb) = <<97, 226, 130, 172>>

\* a 16-bit unit as two bytes, the most significant first or last
Unit16(u, big) ==
  IF big THEN <<u \div 256, u % 256>> ELSE <<u % 256, u \div 256>>

\* the call was made with a supplementary codepoint
SupplementaryEncoded ==
  EncodeCalled /\ enc.entity >= 65536 /\ enc.entity <= 1114111

\* the call went to the UTF-16 backend with a codepoint and succeeded
Utf16Encoded ==
  /\ EncodeCalled
  /\ enc.o_over \in {SHASM_BLOCK_OMODE_U16LE, SHASM_BLOCK_OMODE_U16BE}
  /\ enc.entity <= 1114111
  /\ ~(enc.o_strict /\ enc.entity >= 55296 /\ enc.entity <= 57343)
  /\ enc.status = 1

\* C31: for every supplementary codepoint e the surrogate split yields a
\* high surrogate in 0xD800..0xDBFF and a low surrogate in 0xDC00..0xDFFF
\* with 0x10000 + ((high - 0xD800) << 10) + (low - 0xDC00) = e, and the
\* UTF-16 backend emits the high surrogate before the low one.
SurrogatePairSplit ==
  SupplementaryEncoded =>
    LET s == shasm_block_pair(enc.entity)
        big == enc.o_over = SHASM_BLOCK_OMODE_U16BE
    IN /\ s.hi >= 55296 /\ s.hi <= 56319
       /\ s.lo >= 56320 /\ s.lo <= 57343
       /\ 65536 + (s.hi - 55296) * 1024 + (s.lo - 56320) = enc.entity
       /\ Utf16Encoded =>
            /\ BufferBytes(pb) = BufferBytes(enc.before) \o EncodeOutput
            /\ EncodeOutput = Unit16(s.hi, big) \o Unit16(s.lo, big)

\* U+10348 was encoded in UTF-16 LE on an empty buffer as 00 D8 48 DF
HwairInUtf16 ==
  /\ Utf16Encoded
  /\ enc.entity = 66376
  /\ enc.o_over = SHASM_BLOCK_OMODE_U16LE
  /\ enc.before = shasm_block_alloc
  /\ BufferBytes(pb) = <<0, 216, 72, 223>>

\* the call went to the CESU-8 backend with a codepoint and succeeded
Cesu8Encoded ==
  /\ EncodeCalled
  /\ enc.o_over = SHASM_BLOCK_OMODE_CESU8
  /\ enc.entity <= 1114111
  /\ ~(enc.o_strict /\ enc.entity >= 55296 /\ enc.entity <= 57343)
  /\ enc.status = 1

\* C32: the CESU-8 backend produces the bytes of the UTF-8 backend for
\* every codepoint up to 0xFFFF; for every codepoint from 0x10000 to
\* 0x10FFFF it produces six bytes, the 3-byte UTF-8 encoding of the high
\* surrogate followed by that of the low surrogate, which differ from
\* the 4-byte UTF-8 encoding of the codepoint.
Cesu8AgainstUtf8 ==
  Cesu8Encoded =>
    LET e == enc.entity
        utf8 == shasm_block_utf8(enc.before, e, FALSE)
        high == 55296 + ((e - 65536) \div 1024)
        low == 56320 + ((e - 65536) % 1024)
    IN /\ BufferBytes(pb) = BufferBytes(enc.before) \o EncodeOutput
       /\ IF e <= 65535
            THEN /\ utf8.status = 1
                 /\ BufferBytes(pb) = BufferBytes(utf8.pb)
                 /\ EncodeOutput = StandardUtf8(e)
            ELSE /\ Len(EncodeOutput) = 6
                 /\ Len(StandardUtf8(high)) = 3
                 /\ Len(StandardUtf8(low)) = 3
                 /\ EncodeOutput = StandardUtf8(high) \o StandardUtf8(low)
                 /\ Len(StandardUtf8(e)) = 4
                 /\ utf8.status = 1 =>
                      /\ BufferBytes(utf8.pb)
                           = BufferBytes(enc.before) \o StandardUtf8(e)
                      /\ BufferBytes(utf8.pb) # BufferBytes(pb)

\* U+10348 was encoded in CESU-8 on an empty buffer as ED A0 80 ED BD 88
HwairInCesu8 ==
  /\ Cesu8Encoded
  /\ enc.entity = 66376
  /\ enc.before = shasm_block_alloc
  /\ BufferBytes(pb) = <<237, 160, 128, 237, 189, 136>>

\* a byte sequence with the two bytes of every 16-bit unit exchanged
RECURSIVE SwapUnits(_)
SwapUnits(bytes) ==
  IF Len(bytes) < 2 THEN bytes
  ELSE <<bytes[2], bytes[1]>> \o SwapUnits(SubSeq(bytes, 3, Len(bytes)))

\* a byte sequence in reverse order
Reversed(bytes) == [i \in 1..Len(bytes) |-> bytes[Len(bytes) + 1 - i]]

\* the number a byte sequence denotes, the most significant byte first
RECURSIVE BigEndianValue(_)
BigEndianValue(bytes) ==
  IF bytes = <<>> THEN 0
  ELSE BigEndianValue(SubSeq(bytes, 1, Len(bytes) - 1)) * 256
         + bytes[Len(bytes)]

\* the call went to the UTF-32 backend with a codepoint and succeeded
Utf32Encoded ==
  /\ EncodeCalled
  /\ enc.o_over \in {SHASM_BLOCK_OMODE_U32LE, SHASM_BLOCK_OMODE_U32BE}
  /\ enc.entity <= 1114111
  /\ ~(enc.o_strict /\ enc.entity >= 55296 /\ enc.entity <= 57343)
  /\ enc.status = 1

\* what the backend of a mode appends to the buffer the call started from
OutputOf(mode) ==
  LET Appended(r) ==
        [status |-> r.status,
         bytes |-> SubSeq(r.pb.pBuf, enc.before.buf_len + 1, r.pb.buf_len)]
  IN Appended(Backend(mode, enc.before, enc.entity))

\* C33: for every codepoint the UTF-16 little-endian output is the
\* big-endian output with the two bytes of each 16-bit unit exchanged,
\* and the UTF-32 little-endian output is the big-endian output in
\* reverse order; UTF-32 appends 4 bytes, UTF-16 appends 2 bytes for a
\* codepoint below 0x10000 and 4 bytes otherwise.
ByteOrdersMirrored ==
  /\ Utf16Encoded =>
       LET le == OutputOf(SHASM_BLOCK_OMODE_U16LE)
           be == OutputOf(SHASM_BLOCK_OMODE_U16BE)
       IN /\ le.status = 1 /\ be.status = 1
          /\ BufferBytes(pb) = BufferBytes(enc.before) \o EncodeOutput
          /\ EncodeOutput = (IF enc.o_over = SHASM_BLOCK_OMODE_U16LE
                               THEN le.bytes ELSE be.bytes)
          /\ le.bytes = SwapUnits(be.bytes)
          /\ Len(EncodeOutput) = (IF enc.entity < 65536 THEN 2 ELSE 4)
          /\ enc.entity < 65536 => BigEndianValue(be.bytes) = enc.entity
  /\ Utf32Encoded =>
       LET le == OutputOf(SHASM_BLOCK_OMODE_U32LE)
           be == OutputOf(SHASM_BLOCK_OMODE_U32BE)
       IN /\ le.status = 1 /\ be.status = 1
          /\ BufferBytes(pb) = BufferBytes(enc.before) \o EncodeOutput
          /\ EncodeOutput = (IF enc.o_over = SHASM_BLOCK_OMODE_U32LE
                               THEN le.bytes ELSE be.bytes)
          /\ le.bytes = Reversed(be.bytes)
          /\ Len(EncodeOutput) = 4
          /\ BigEndianValue(be.bytes) = enc.entity

\* U+20AC was appended in UTF-32 LE to a buffer holding a letter as
\* AC 20 00 00
EuroSignInUtf32 ==
  /\ Utf32Encoded
  /\ enc.entity = 8364
  /\ enc.o_over = SHASM_BLOCK_OMODE_U32LE
  /\ BufferBytes(enc.before) = <<97>>
  /\ BufferBytes(pb) = <<97, 172, 32, 0, 0>>

\* a call on a block reader that is not in error state went to the
\* encoding table, whose entry for the entity is bytes; scratch is the
\* temporary buffer the call was given
TableEncode(bytes, scratch) ==
  LET n == Len(bytes)
      after == enc'.pt
  IN /\ after.len >= scratch.len
     /\ after.len = Len(after.pBuf)
     /\ IF n <= scratch.len
          THEN /\ enc'.maps = 1
               /\ after.len = scratch.len
               /\ after.pBuf = bytes \o SubSeq(scratch.pBuf, n + 1, scratch.len)
          ELSE IF n <= SHASM_BLOCK_MAXBUFFER
            THEN /\ enc'.maps = 2
                 /\ after.len >= n
                 /\ after.len <= SHASM_BLOCK_MAXBUFFER
                 /\ after.pBuf = bytes \o Zeros(after.len - n)
          ELSE /\ enc'.maps = 1
               /\ after = scratch
               /\ enc'.status = 0
               /\ pb' = pb
     /\ enc'.status = 1 => BufferBytes(pb') = BufferBytes(pb) \o bytes
     /\ n = 0 => enc'.status = 1 /\ pb' = pb
     /\ enc'.status = 0 => pb.buf_len + n >= SHASM_BLOCK_MAXBUFFER

EncodeByTable ==
  (/\ EncodeStep
   /\ pb.code = SHASM_OKAY
   /\ \/ ForcedToTable(enc'.entity, enc'.o_strict)
      \/ enc'.o_over = SHASM_BLOCK_OMODE_NONE)
    => TableEncode(TableBytes(enc'.penc, enc'.entity), enc.pt)

\* C34: the encoding-table backend calls the callback with the current
\* temporary buffer; if the entry of the entity needs more bytes than
\* that buffer has, the buffer is widened (filled with zeros, at least
\* as long as the entry, at most MAX_BUFFER, never shorter than before)
\* and the callback is called again, twice at most; then the bytes of
\* the entry are appended in order.  An empty entry appends nothing and
\* succeeds; an entry longer than MAX_BUFFER fails and appends nothing.
TableBackend == [][EncodeByTable]_vars

\* the 15-byte entry of the test table was appended to a buffer holding
\* a letter: the callback ran twice and the temporary buffer was widened
\* to 16 bytes
LongEntryWidened ==
  /\ EncodeCalled
  /\ enc.entity = 2097157
  /\ enc.o_over = SHASM_BLOCK_OMODE_NONE
  /\ enc.penc = "test"
  /\ BufferBytes(enc.before) = <<97>>
  /\ enc.status = 1
  /\ enc.maps = 2
  /\ enc.pt = [len |-> 16, pBuf |-> Smileys(5) \o <<0>>]
  /\ BufferBytes(pb) = <<97>> \o Smileys(5)

(***************************************************************************)
(* Properties of the skip phase and of the reads as a whole (SpecToken).   *)
(***************************************************************************)
\* the index of the first byte of data, from index i on, that is neither
\* whitespace nor part of a comment, a comment running from the byte intro
\* to the next LF; Len(data) + 1 if there is no such byte
RECURSIVE SkipTo(_, _, _, _)
SkipTo(data, i, intro, comment) ==
  IF i > Len(data) THEN i
  ELSE IF comment THEN SkipTo(data, i + 1, intro, data[i] # ASCII_LF)
  ELSE IF data[i] \in {ASCII_HT, ASCII_SP, ASCII_LF}
    THEN SkipTo(data, i + 1, intro, FALSE)
  ELSE IF data[i] = intro THEN SkipTo(data, i + 1, intro, TRUE)
  ELSE i

\* the skip phase of sntoken_read, comments starting with intro.  From
\* the filter and the stream the last read started with, sntk_skip ends
\* with the first byte after whitespace and comments read and pushed
\* back; that byte is the first byte of the token read; a byte the read
\* rejects with SNERR_BADCHAR is not before it.
SkipStopsAtToken(intro) ==
  (InLoop /\ ~aborted) =>
    LET data == rd.f.data
        from == IF rd.fil.pushback THEN rd.f.pos ELSE rd.f.pos + 1
        k == SkipTo(data, from, intro, FALSE)
        s == sntk_skip([rd.f EXCEPT !.calls = 0], rd.fil)
        T == snbuffer_get(rd.tok.buf).str
    IN IF k <= Len(data)
         THEN /\ ~s.abort
              /\ s.f.pos = k
              /\ s.fil.c = data[k]
              /\ s.fil.pushback
              /\ snfilter_read(s.fil, s.f).ret = data[k]
              /\ rd.tok.err = 0 =>
                   T = SubSeq(data, k, k + snbuffer_count(rd.tok.buf) - 1)
              /\ rd.tok.err = SNERR_BADCHAR =>
                   /\ rd.tok.f.pos >= k
                   /\ rd.tok.c = data[rd.tok.f.pos]
         ELSE rd.tok.err = SNERR_EOF

\* the same of a shasm_block_token call, comments starting with intro: a
\* token read with success starts at the first byte after whitespace and
\* comments, and a byte rejected with SHASM_ERR_TOKENCHAR is not before it
BlockSkipStopsAtToken(intro) ==
  (ncalls' = ncalls + 1 /\ lastop' = "token" /\ pb.code = SHASM_OKAY) =>
    LET data == ps.src.data
        from == BlockConsumed + (IF ps.pushback THEN 0 ELSE 1)
        k == SkipTo(data, from, intro, FALSE)
    IN IF k <= Len(data)
         THEN /\ bret' = 1 => BlockTokenFrom' = k
              /\ pb'.code = SHASM_ERR_TOKENCHAR =>
                   /\ BlockConsumed' >= k
                   /\ ps'.c = data[BlockConsumed']
         ELSE bret' = 0 /\ pb'.code = SHASM_ERR_EOF

\* C35, as corrected: the skip phase drops every run of HT, SP and LF and
\* every comment, a comment running from '#' in shastina.c and from '&'
\* in the block reader to the next LF; no byte of a comment is rejected
\* as a bad character; the first byte that is neither whitespace nor in
\* a comment is pushed back and is the first byte of the token read.
SkipPhase ==
  /\ []SkipStopsAtToken(ASCII_POUNDSIGN)
  /\ [][BlockSkipStopsAtToken(SHASM_ASCII_AMPERSAND)]_vars

\* the file # LF ; after one read of each reader: sntoken_read has
\* skipped the comment and read the semicolon, the block reader has read
\* the pound sign as a token
CommentSkippedBeforeToken ==
  /\ pIn.data = <<ASCII_POUNDSIGN, ASCII_LF, ASCII_SEMICOLON>>
  /\ rd.n = 1
  /\ ~aborted
  /\ rd.tok.err = 0
  /\ snbuffer_get(rd.tok.buf).str = <<ASCII_SEMICOLON>>
  /\ pIn.pos = 3
  /\ BlockCalls = 1
  /\ bret = 1
  /\ BlockTokenBytes = <<ASCII_POUNDSIGN>>

\* C35, as claimed: the same with '#' as the comment introducer of both
\* readers.
SkipPhaseAsClaimed ==
  /\ []SkipStopsAtToken(ASCII_POUNDSIGN)
  /\ [][BlockSkipStopsAtToken(ASCII_POUNDSIGN)]_vars

(***************************************************************************)
(* Properties of the line number under pushback (SpecLines).               *)
(***************************************************************************)
\* a pushback that sets the flag while the filter holds LF lowers the
\* value snfilter_count returns by one, or leaves it if line_count is
\* LONG_MAX and clamped is set, and leaves line_count and c alone; the read
\* that takes the LF back
\* clears the flag and nothing else, so that snfilter_count returns what
\* it returned before the pushback; the value is within 1..LONG_MAX
LineUnderPushback(clamped) ==
  /\ snfilter_count(fil') >= 1
  /\ snfilter_count(fil') <= LONG_MAX
  /\ ( /\ lastop' = "pushback"
       /\ pbret' = 1
       /\ fil.c = ASCII_LF
       /\ ~fil.pushback ) =>
       /\ fil'.pushback
       /\ fil'.line_count = fil.line_count
       /\ fil'.c = fil.c
       /\ snfilter_count(fil') = IF clamped /\ fil.line_count = LONG_MAX
                                   THEN snfilter_count(fil)
                                   ELSE snfilter_count(fil) - 1
  /\ ( /\ lastop' = "read"
       /\ fil.pushback
       /\ fil.c = ASCII_LF ) =>
       /\ ret' = ASCII_LF
       /\ fil' = [fil EXCEPT !.pushback = FALSE]
       /\ snfilter_count(fil') = IF clamped /\ fil.line_count = LONG_MAX
                                   THEN snfilter_count(fil)
                                   ELSE snfilter_count(fil) + 1

\* C36, as corrected: pushing back an LF lowers the line number that
\* snfilter_count reports by exactly one, unless the line counter is at
\* LONG_MAX, where LONG_MAX is reported before and after; the stored
\* counter and character do not change; reading the LF again restores
\* the value reported before; the value is always between 1 and LONG_MAX.
LineNumberUnderPushback == [][LineUnderPushback(TRUE)]_vars

\* the first byte of the file, an LF, has been read and pushed back: the
\* counter is 1 and line 1 is reported, where line 2 was reported before
LineFeedPushedBack ==
  /\ lastop = "pushback"
  /\ pbret = 1
  /\ out = <<ASCII_LF>>
  /\ fil.c = ASCII_LF
  /\ fil.pushback
  /\ fil.line_count = 1
  /\ snfilter_count(fil) = 1
  /\ snfilter_count([fil EXCEPT !.pushback = FALSE]) = 2

\* C36, as claimed: the same with no exception at LONG_MAX.
LineNumberUnderPushbackAlways == [][LineUnderPushback(FALSE)]_vars

(***************************************************************************)
(* Properties of the reads of main as a whole (SpecToken, SpecString)      *)
(***************************************************************************)

\* C37: no read of the program of shastina.c ends in abort(): every
\* pushback that sntk_skip and sntk_readToken ask for succeeds, and so does
\* the removal of the last character in sntoken_read, whatever the input
ScannersNeverAbort == InLoop => ~aborted

\* the number of characters of the stream f that a filter whose pushback
\* flag is pushback has given out for good
Delivered(f, pushback) == f.pos - (IF pushback THEN 1 ELSE 0)

\* the reads of the stream that take no byte from it: the one that meets
\* the end of the file or the read error, and on a filter that has read
\* nothing yet the look at the first byte for a byte order mark
SpareReads(line_count) == IF line_count = 0 THEN 2 ELSE 1

\* a call of sntoken_read ends with a token or with an error (in abort()
\* too, if mayAbort); a token takes at least one character from the input;
\* and the call reads the stream at most twice for each byte it takes (a
\* line break is read with a look at the byte after it), and no more than
\* SpareReads times besides
TokenReadEnds(mayAbort) ==
  (rd'.n = rd.n + 1) =>
    /\ mayAbort \/ ~aborted'
    /\ ~aborted' =>
         /\ \/ tk'.status < 0
            \/ tk'.status \in {SNTOKEN_SIMPLE, SNTOKEN_STRING, SNTOKEN_EMBED,
                               SNTOKEN_FINAL}
         /\ tk'.status >= 0 =>
              Delivered(pIn', fil'.pushback) > Delivered(pIn, fil.pushback)
    /\ pIn'.calls <= 2 * (pIn'.pos - pIn.pos) + SpareReads(fil.line_count)

\* the same of a call of shasm_block_token
BlockTokenEnds ==
  (ncalls' = ncalls + 1) =>
    /\ bret' \in {0, 1}
    /\ bret' = 1 <=> pb'.code = SHASM_OKAY
    /\ bret' = 1 =>
         Delivered(ps'.src, ps'.pushback) - Len(ps'.ahead)
           > Delivered(ps.src, ps.pushback) - Len(ps.ahead)
    /\ ps'.src.calls <= 2 * ((ps'.src.pos - Len(ps'.ahead))
                               - (ps.src.pos - Len(ps.ahead)))
                          + SpareReads(ps.line_count)

\* main stops reading at the final token or at the first error: no read
\* follows either, and a file is read in no more reads than it has bytes,
\* and one
MainLoopEnds == rd.n <= Len(pIn.data) + 1

MainLoopGoesOn ==
  (rd'.n = rd.n + 1 /\ InLoop) =>
    tk.status >= 0 /\ tk.status # SNTOKEN_FINAL

\* C38: every call of sntoken_read and of shasm_block_token ends, returning
\* a token or an error, after reading the stream no more than twice for
\* each byte it takes, once for the sentinel that stops it and once for the
\* byte order mark; every token takes
\* at least one byte; and the loop of main ends at the final token or at
\* the first error, after at most one read for each byte of the file and
\* one more
ReadsTerminate ==
  /\ []MainLoopEnds
  /\ [][TokenReadEnds(FALSE) /\ BlockTokenEnds /\ MainLoopGoesOn]_vars

\* the same, with abort() counted among the ways a call may end
ReadsTerminateOrAbort ==
  /\ []MainLoopEnds
  /\ [][TokenReadEnds(TRUE) /\ BlockTokenEnds /\ MainLoopGoesOn]_vars

(***************************************************************************)
(* Properties of the string values and of the token kinds (SpecString,     *)
(* SpecToken)                                                              *)
(***************************************************************************)

\* byte i of v is not directly preceded by a backslash
Unescaped(v, i) == i = 1 \/ v[i - 1] # ASCII_BACKSLASH

\* the number of bytes c among the first n bytes of v that are not
\* directly preceded by a backslash
CountUnescaped(v, n, c) ==
  Cardinality({ i \in 1..n : v[i] = c /\ Unescaped(v, i) })

\* v has as many left as right curly brackets, and no prefix of v has more
\* right than left ones, counting the brackets not directly preceded by a
\* backslash
BraceBalanced(v) ==
  /\ CountUnescaped(v, Len(v), ASCII_LCURL)
       = CountUnescaped(v, Len(v), ASCII_RCURL)
  /\ \A n \in 0..Len(v) :
       CountUnescaped(v, n, ASCII_RCURL) <= CountUnescaped(v, n, ASCII_LCURL)

\* the value of the string token read last
StringValue == snbuffer_get(tk.pValue).str

\* C39: the value of a curly string read with success is balanced in the
\* curly brackets that are not directly preceded by a backslash, and the
\* value of a quoted string read with success has no double quote that is
\* not directly preceded by a backslash
StringValueDelimiters ==
  (InLoop /\ ~aborted /\ tk.status = SNTOKEN_STRING) =>
    /\ tk.str_type = SNSTRING_CURLY => BraceBalanced(StringValue)
    /\ tk.str_type = SNSTRING_QUOTED =>
         CountUnescaped(StringValue, Len(StringValue), ASCII_DQUOTE) = 0

\* a curly string has been read whose value holds a right bracket that is
\* directly preceded by a backslash
EscapedBraceInValue ==
  /\ InLoop
  /\ ~aborted
  /\ tk.status = SNTOKEN_STRING
  /\ tk.str_type = SNSTRING_CURLY
  /\ \E i \in 2..Len(StringValue) :
       /\ StringValue[i] = ASCII_RCURL
       /\ ~Unescaped(StringValue, i)

\* all of the sequence s but its last element
Front(s) == SubSeq(s, 1, Len(s) - 1)

\* what sntoken_read is to make of the token (the bytes sntk_readToken has
\* read, the stream standing at byte at, the last byte of the token, when
\* sntk_readToken returned): the status, the string type, the key and the
\* value
Classified(token, data, at) ==
  LET last == token[Len(token)]
      body(e) == SubSeq(data, at + 1, e - 1)
  IN IF last = ASCII_DQUOTE
       THEN [status |-> SNTOKEN_STRING, str_type |-> SNSTRING_QUOTED,
             key |-> Front(token),
             value |-> body(QuoteEnd(data, at + 1, FALSE))]
     ELSE IF last = ASCII_LCURL
       THEN [status |-> SNTOKEN_STRING, str_type |-> SNSTRING_CURLY,
             key |-> Front(token),
             value |-> body(CurlyEnd(data, at + 1, FALSE, 1))]
     ELSE IF last = ASCII_GRACCENT
       THEN [status |-> SNTOKEN_EMBED, str_type |-> 0,
             key |-> Front(token), value |-> <<>>]
     ELSE IF token = <<ASCII_BAR, ASCII_SEMICOLON>>
       THEN [status |-> SNTOKEN_FINAL, str_type |-> 0,
             key |-> token, value |-> <<>>]
     ELSE [status |-> SNTOKEN_SIMPLE, str_type |-> 0,
           key |-> token, value |-> <<>>]

\* C40: a token that sntoken_read returns is classified by its last byte:
\* a double quote gives a quoted string and a left curly bracket a curly
\* string, the key being the token without that byte and the value the
\* body of the string; a grave accent gives EMBED, the key being the token
\* without it and the input standing just after it; the token |; gives
\* FINAL; any other token is SIMPLE with the whole token as its key; and
\* the value is empty unless the token is a string
TokenClassifiedByLastByte ==
  (InLoop /\ ~aborted /\ tk.status >= 0) =>
    LET token == rd.tok.buf.pBuf
        at == Delivered(rd.tok.f, rd.tok.fil.pushback)
        k == Classified(token, rd.f.data, at)
    IN /\ Len(token) > 0
       /\ tk.status # SNTOKEN_FINAL =>
            token = SubSeq(rd.f.data, at - Len(token) + 1, at)
       /\ tk.status = k.status
       /\ tk.str_type = k.str_type
       /\ snbuffer_get(tk.pKey).str = k.key
       /\ StringValue = k.value
       /\ snbuffer_count(tk.pKey) = Len(k.key)
       /\ snbuffer_count(tk.pValue) = Len(k.value)
       /\ tk.status = SNTOKEN_EMBED =>
            /\ pIn.pos = at
            /\ ~fil.pushback
            /\ rd.f.data[pIn.pos] = ASCII_GRACCENT

\* embedded data with a prefix has been announced: the key is the prefix
\* and the input stands at the byte after the grave accent, which is there
EmbedWithPrefixRead ==
  /\ InLoop
  /\ ~aborted
  /\ tk.status = SNTOKEN_EMBED
  /\ snbuffer_count(tk.pKey) > 0
  /\ pIn.pos < Len(pIn.data)

====
